---- MODULE Spec2Model ----
(***************************************************************************)
(* Discharge-instructions translator: the translation resolver            *)
(* (src/js/translator.js), its request helper makeRequest, the free       *)
(* provider chain (src/unnamed/part_000) and the per-category aggregation *)
(* pass of the application (src/js/app.js).                                *)
(*                                                                         *)
(* Strings are sequences of word tokens; a text is a record               *)
(* [kind, items] where kind is "string" (one item), "array" (a list of    *)
(* strings) or "undefined".  Confidences are in percent (1.0 = 100).      *)
(* Times are in milliseconds.                                              *)
(***************************************************************************)
EXTENDS Integers, Sequences, FiniteSets, TLC

VARIABLES slots, apiKeys, cache, rateLimiter, now, pc, arg, tried, failedP, last, started

varsT == <<slots, apiKeys, cache, rateLimiter, now, pc, arg, tried, failedP, last, started>>

\* one makeRequest call
VARIABLES rqPc, rqAttempt, rqWake, rqLog, rqFetchAt

varsR == <<rqPc, rqAttempt, rqWake, rqLog, rqFetchAt>>

\* one translate call of the free provider chain (src/unnamed/part_000)
VARIABLES ltPc, ltArg, ltEndpoint, ltItem, ltTranslations, ltLastError,
          ltFetched, ltRet, lastUsedMethod

varsF == <<ltPc, ltArg, ltEndpoint, ltItem, ltTranslations, ltLastError,
           ltFetched, ltRet, lastUsedMethod>>

\* one aggregation pass over the categories of a parsed record (src/js/app.js)
VARIABLES agPc, agPass, agParsed, agData, agErrors, agSection, agTotal,
          agCount, agService, agConfidence, agSent, agThrown, agConfs

varsA == <<agPc, agPass, agParsed, agData, agErrors, agSection, agTotal,
           agCount, agService, agConfidence, agSent, agThrown, agConfs>>

\* the application: submissions, language changes and processing runs
\* (src/js/app.js)
VARIABLES appLanguage, currentData, isProcessing, appRuns, appRendered,
          appSeq, appSubmitted, appLatest

varsP == <<appLanguage, currentData, isProcessing, appRuns, appRendered,
           appSeq, appSubmitted, appLatest>>

\* one MedicalDataParser instance and its parseDischargeData calls
\* (src/js/medical-parser.js)
VARIABLES psPc, psRaw, psI, currentSection, buffer, psResult, lastIndex,
          psAttr, psOut, psFirst

varsM == <<psPc, psRaw, psI, currentSection, buffer, psResult, lastIndex,
           psAttr, psOut, psFirst>>

\* one parseDischargeData call of the sentence-preserving parser
\* (src/unnamed/part_005)
VARIABLES sxInput, sxResult, fbInput, fbResult

varsX == <<sxInput, sxResult, fbInput, fbResult>>

\* one provider call with a list of strings (src/js/translator.js)
VARIABLES btCall, btRet

varsB == <<btCall, btRet>>

\* the QR code of the latest document and the latest scan (src/js/app.js,
\* src/unnamed/part_004)
VARIABLES qrCode, qrScan

varsQ == <<qrCode, qrScan>>

\* one aggregation pass with the resolver it calls (src/js/app.js,
\* src/js/translator.js)
VARIABLES rpParsed, rpRun, rpCache, rpRate, rpNow

varsS == <<rpParsed, rpRun, rpCache, rpRate, rpNow>>

vars == <<varsT, varsR, varsF, varsA, varsP, varsM, varsX, varsB, varsQ, varsS>>

(***************************************************************************)
(* Program constants and bounds                                            *)
(***************************************************************************)
retryAttempts == 3
retryDelay == 1000
RateWindowMs == 1000

\* model bounds
MaxTicks == 2
MaxStarted == 2
MaxReqTicks == 7

\* the clock advances in steps of half the rate-limit window
TickMs == RateWindowMs \div 2
\* Date.now() is never 0: the clock starts at a positive instant
Epoch == RateWindowMs

Calls == {"c1", "c2"}
Langs == {"en", "es"}

StrText == [kind |-> "string", items |-> << <<"rest">> >>]
ListText == [kind |-> "array", items |-> << <<"rest">>, <<"follow", "up">> >>]
Texts == {StrText, ListText}
UndefinedText == [kind |-> "undefined", items |-> << >>]

ProviderOrder == <<"google", "microsoft", "deepl", "backend">>
AllProviders == {ProviderOrder[i] : i \in DOMAIN ProviderOrder}

NoResult == [kind |-> "none"]
\* at: the instant the call was made
NoArg == [text |-> UndefinedText, target |-> "en", source |-> "en", at |-> 0]

(***************************************************************************)
(* Pure helpers of TranslationService (src/js/translator.js)               *)
(***************************************************************************)
\* cacheKey: `${sourceLang}-${targetLang}-${JSON.stringify(text)}`
cacheKey(text, targetLang, sourceLang) == <<sourceLang, targetLang, text>>

CacheKeys == {cacheKey(x, t, s) : x \in Texts, t \in Langs, s \in Langs}

\* what a remote service answers for one string: a rendering in targetLang
RemoteTranslate(item, targetLang) == <<targetLang>> \o item

MapItems(text, targetLang) ==
    [kind |-> text.kind,
     items |-> [i \in DOMAIN text.items |-> RemoteTranslate(text.items[i], targetLang)]]

Min(a, b) == IF a < b THEN a ELSE b
Max(a, b) == IF a > b THEN a ELSE b
Abs(a) == IF a < 0 THEN -a ELSE a

\* calculateConfidence(translation): percent
calculateConfidence(detected, originalLength, translatedLength) ==
    LET base == IF detected THEN 90 ELSE 80
        c == IF translatedLength = 0 THEN 0
             ELSE IF Abs(originalLength - translatedLength) > originalLength * 2
                  THEN base - 20
                  ELSE base
    IN Max(0, Min(100, c))

\* length in characters of a string of word tokens (words of the model have
\* at least one character; only zero / non-zero and ratios matter)
StrLen(item) == Len(item)

\* a window that also rejects a request made exactly one window later
isRateLimitedAt_Inclusive(rl, language, t) ==
    IF rl[language] = 0 THEN FALSE
    ELSE (t - rl[language]) <= RateWindowMs

isRateLimitedAt(rl, language, t) ==
    IF rl[language] = 0 THEN FALSE
    ELSE (t - rl[language]) < RateWindowMs

isRateLimited(language) == isRateLimitedAt(rateLimiter, language, now)

\* a limiter with one timestamp for all languages
updateRateLimit_AllLanguages(rl, language, t) == [l \in DOMAIN rl |-> t]

\* updateRateLimit(language): this.rateLimiter.set(key, Date.now())
updateRateLimit(rl, language, t) == [rl EXCEPT ![language] = t]

\* the payloads a provider endpoint may answer with (after makeRequest
\* returned the parsed JSON): well-formed or lacking the expected fields
Payloads ==
    [shape : {"ok", "bad"}, detected : {FALSE}, conf : {0}]

PayloadsFor(p) ==
    CASE p = "google" -> {x \in Payloads : x.conf = 0}
      [] p = "microsoft" -> {x \in Payloads : x.detected = FALSE}
      [] p = "deepl" -> {x \in Payloads : x.conf = 0 /\ x.detected = FALSE}
      [] OTHER -> {x \in Payloads : x.detected = FALSE}

\* does translateWithX throw 'Invalid response from ...' on this payload
InvalidResponse(p, payload) ==
    IF p = "backend" THEN FALSE ELSE payload.shape = "bad"

\* the result object translateWithX builds from a payload it accepts
ProviderResult(p, text, targetLang, payload) ==
    CASE p = "google" ->
            [kind |-> "result",
             translatedText |-> MapItems(text, targetLang),
             confidence |-> calculateConfidence(payload.detected, 0,
                               StrLen(RemoteTranslate(text.items[1], targetLang))),
             service |-> "google", originalText |-> text]
      [] p = "microsoft" ->
            [kind |-> "result",
             translatedText |-> MapItems(text, targetLang),
             confidence |-> IF payload.conf # 0 THEN payload.conf ELSE 80,
             service |-> "microsoft", originalText |-> text]
      [] p = "deepl" ->
            [kind |-> "result",
             translatedText |-> MapItems(text, targetLang),
             confidence |-> 90,
             service |-> "deepl", originalText |-> text]
      [] OTHER ->
            [kind |-> "result",
             translatedText |-> IF payload.shape = "ok"
                                THEN MapItems(text, targetLang)
                                ELSE UndefinedText,
             confidence |-> IF payload.conf # 0 THEN payload.conf ELSE 70,
             service |-> "backend", originalText |-> text]

SameLanguageResult(text) ==
    [kind |-> "result", translatedText |-> text, confidence |-> 100,
     service |-> "none", originalText |-> text]

RateLimitError == [kind |-> "throw", msg |-> "Rate limit exceeded"]
TranslationFailed == [kind |-> "throw", msg |-> "Translation failed"]

\* a chain that does not look at the configuration: the next in the order
NextProvider_NoSkip(keys, i) ==
    IF i < Len(ProviderOrder) THEN i + 1 ELSE 0

\* index of the first configured provider after position i (0: none left):
\* the chain of `if (!result && this.apiKeys.X)` blocks
NextProvider(keys, i) ==
    LET later == {j \in DOMAIN ProviderOrder : j > i /\ ProviderOrder[j] \in keys}
    IN IF later = {} THEN 0
       ELSE CHOOSE j \in later : \A k \in later : j <= k

ProviderIndex(p) == CHOOSE i \in DOMAIN ProviderOrder : ProviderOrder[i] = p

(***************************************************************************)
(* Resolver state machine                                                  *)
(*                                                                         *)
(* pc[c] = "await": call c of translate is suspended on a translateWithX   *)
(* call; tried[c] lists the providers it has invoked so far, failedP[c]    *)
(* those that failed.  slots is the set of invocations that may be in      *)
(* flight at the same time.  last is the return delivered by the latest step, if *)
(* that step made a translate call return: its arguments, the providers it *)
(* invoked and what it returned or threw (NoLast after any other step).    *)
(***************************************************************************)
NoLast == [arg |-> NoArg, tried |-> << >>, failed |-> {}, ret |-> NoResult]

Returned(a, tr, fl, r) == [arg |-> a, tried |-> tr, failed |-> fl, ret |-> r]

\* an invocation takes the first free slot (slots only name the invocations
\* that are in flight at the same time)
FreeSlot(c) == c \in slots /\ pc[c] = "idle" /\ (c = "c2" => pc["c1"] # "idle")

InitResolver ==
    /\ apiKeys \in SUBSET AllProviders
    /\ cache = [k \in CacheKeys |-> NoResult]
    /\ rateLimiter = [l \in Langs |-> 0]
    /\ now = Epoch
    /\ pc = [c \in Calls |-> "idle"]
    /\ arg = [c \in Calls |-> NoArg]
    /\ tried = [c \in Calls |-> << >>]
    /\ failedP = [c \in Calls |-> {}]
    /\ last = NoLast
    /\ started = 0

\* the rate limit checked first, before the same-language short-circuit
TranslateRoute_RateFirst(targetLang, sourceLang, hit, limited, first) ==
    IF limited THEN "limited"
    ELSE IF targetLang = sourceLang THEN "same"
    ELSE IF hit THEN "hit"
    ELSE IF first = 0 THEN "failed"
    ELSE "chain"

\* the rate limit checked before the cache
TranslateRoute_RateBeforeCache(targetLang, sourceLang, hit, limited, first) ==
    IF targetLang = sourceLang THEN "same"
    ELSE IF limited THEN "limited"
    ELSE IF hit THEN "hit"
    ELSE IF first = 0 THEN "failed"
    ELSE "chain"

\* the order of the checks at the head of translate: same language, cache,
\* rate limit, then the provider chain (first: index of the first configured
\* provider, 0 when none is configured)
TranslateRoute(targetLang, sourceLang, hit, limited, first) ==
    IF targetLang = sourceLang THEN "same"
    ELSE IF hit THEN "hit"
    ELSE IF limited THEN "limited"
    ELSE IF first = 0 THEN "failed"
    ELSE "chain"

RouteOf(text, targetLang, sourceLang) ==
    TranslateRoute(targetLang, sourceLang,
                   cache[cacheKey(text, targetLang, sourceLang)] # NoResult,
                   isRateLimited(targetLang),
                   NextProvider(apiKeys, 0))

\* translate(text, targetLang, sourceLang) up to its first suspension point
Translate(c, text, targetLang, sourceLang) ==
    /\ FreeSlot(c)
    /\ started < MaxStarted
    /\ started' = started + 1
    /\ UNCHANGED <<slots, apiKeys, cache, rateLimiter, now, failedP>>
    /\ LET a == [text |-> text, target |-> targetLang, source |-> sourceLang, at |-> now]
           key == cacheKey(text, targetLang, sourceLang)
           route == RouteOf(text, targetLang, sourceLang)
       IN IF route = "chain"
          THEN /\ pc' = [pc EXCEPT ![c] = "await"]
               /\ arg' = [arg EXCEPT ![c] = a]
               /\ tried' = [tried EXCEPT ![c] = <<ProviderOrder[NextProvider(apiKeys, 0)]>>]
               /\ last' = NoLast
          ELSE /\ last' = Returned(a, << >>, {},
                             CASE route = "same" -> SameLanguageResult(text)
                               [] route = "hit" -> cache[key]
                               [] route = "limited" -> RateLimitError
                               [] OTHER -> TranslationFailed)
               /\ UNCHANGED <<pc, arg, tried>>

\* the awaited translateWithX call settles: it returns a result or throws
ProviderReturn(c, threw, payload) ==
    /\ pc[c] = "await"
    /\ LET p == tried[c][Len(tried[c])]
           a == arg[c]
           fails == threw \/ InvalidResponse(p, payload)
           nxt == NextProvider(apiKeys, ProviderIndex(p))
           res == ProviderResult(p, a.text, a.target, payload)
       IN /\ payload \in PayloadsFor(p)
          /\ IF ~fails
             THEN /\ last' = Returned(a, tried[c], failedP[c], res)
                  /\ cache' = [cache EXCEPT ![cacheKey(a.text, a.target, a.source)] = res]
                  /\ rateLimiter' = updateRateLimit(rateLimiter, a.target, now)
                  /\ pc' = [pc EXCEPT ![c] = "idle"]
                  /\ arg' = [arg EXCEPT ![c] = NoArg]
                  /\ tried' = [tried EXCEPT ![c] = << >>]
                  /\ failedP' = [failedP EXCEPT ![c] = {}]
             ELSE IF nxt = 0
             THEN /\ last' = Returned(a, tried[c], failedP[c] \cup {p}, TranslationFailed)
                  /\ pc' = [pc EXCEPT ![c] = "idle"]
                  /\ arg' = [arg EXCEPT ![c] = NoArg]
                  /\ tried' = [tried EXCEPT ![c] = << >>]
                  /\ failedP' = [failedP EXCEPT ![c] = {}]
                  /\ UNCHANGED <<cache, rateLimiter>>
             ELSE /\ tried' = [tried EXCEPT ![c] = Append(@, ProviderOrder[nxt])]
                  /\ failedP' = [failedP EXCEPT ![c] = @ \cup {p}]
                  /\ last' = NoLast
                  /\ UNCHANGED <<cache, rateLimiter, pc, arg>>
    /\ UNCHANGED <<slots, apiKeys, now, started>>

clearCache ==
    /\ cache' = [k \in CacheKeys |-> NoResult]
    /\ rateLimiter' = [l \in Langs |-> 0]
    /\ \/ cache # cache'
       \/ rateLimiter # rateLimiter'
    /\ last' = NoLast
    /\ UNCHANGED <<slots, apiKeys, now, pc, arg, tried, failedP, started>>

Tick ==
    /\ now < Epoch + MaxTicks * TickMs
    /\ now' = now + TickMs
    /\ last' = NoLast
    /\ UNCHANGED <<slots, apiKeys, cache, rateLimiter, pc, arg, tried, failedP, started>>

(***************************************************************************)
(* makeRequest(url, options, attempt = 1)                                  *)
(*                                                                         *)
(* rqPc: "idle", "fetch" (a fetch is pending), "sleep" (waiting before the *)
(* next attempt), "returned" (the parsed JSON was returned), "thrown", or  *)
(* "stalled" (the pending fetch is never answered).                        *)
(* rqLog: how each fetch of the call settled and when; rqFetchAt: when     *)
(* each fetch was issued.                                                  *)
(***************************************************************************)
\* how one fetch can settle:
\*   ok        2xx and the body parses as JSON
\*   badjson   2xx, response.json() rejects (the body is not JSON)
\*   http429   status 429, its body is readable
\*   httpErr   another non-2xx status, its body is readable
\*   bodyFail  a non-2xx status whose body cannot be read (response.text() rejects)
\*   neterr    fetch itself rejects (connectivity)
FetchOutcomes == {"ok", "badjson", "http429", "httpErr", "bodyFail", "neterr"}

\* a variant that allows one attempt more
RequestStep_OffByOne(outcome, attempt) ==
    CASE outcome = "ok" -> "return"
      [] outcome = "httpErr" -> "throw"
      [] OTHER -> IF attempt <= retryAttempts THEN "retry" ELSE "throw"

\* what makeRequest does with a settled fetch on the given attempt
RequestStep(outcome, attempt) ==
    CASE outcome = "ok" -> "return"
      [] outcome = "http429" ->
            \* line 254, else `HTTP 429: ...` is thrown and the catch rethrows it
            IF attempt < retryAttempts THEN "retry" ELSE "throw"
      [] outcome = "httpErr" ->
            \* message starts with 'HTTP': the catch rethrows
            "throw"
      [] OTHER ->
            \* badjson, bodyFail, neterr: an error whose message has no 'HTTP'
            IF attempt < retryAttempts THEN "retry" ELSE "throw"

IdleRequest ==
    /\ rqPc = "idle"
    /\ rqAttempt = 0
    /\ rqWake = 0
    /\ rqLog = << >>
    /\ rqFetchAt = << >>

MakeRequest ==
    /\ rqPc = "idle"
    /\ rqPc' = "fetch"
    /\ rqAttempt' = 1
    /\ rqFetchAt' = <<now>>
    /\ UNCHANGED <<rqWake, rqLog, now>>

FetchSettles(outcome) ==
    /\ rqPc = "fetch"
    /\ rqLog' = Append(rqLog, [outcome |-> outcome, at |-> now])
    /\ LET step == RequestStep(outcome, rqAttempt)
       IN /\ rqPc' = CASE step = "return" -> "returned"
                       [] step = "retry" -> "sleep"
                       [] OTHER -> "thrown"
          /\ rqWake' = IF step = "retry" THEN now + retryDelay * rqAttempt ELSE rqWake
    /\ UNCHANGED <<rqAttempt, rqFetchAt, now>>

\* the timer of sleep(ms) fires, not before ms have passed, and the
\* recursive call issues the next fetch
Wake ==
    /\ rqPc = "sleep"
    /\ now >= rqWake
    /\ rqPc' = "fetch"
    /\ rqAttempt' = rqAttempt + 1
    /\ rqFetchAt' = Append(rqFetchAt, now)
    /\ UNCHANGED <<rqWake, rqLog, now>>

\* the server never answers the pending fetch: `timeout: 15000` (line 249)
\* is not an option of fetch and no abort signal is passed, so the await of
\* line 251 is never resumed
FetchStalls ==
    /\ rqPc = "fetch"
    /\ rqPc' = "stalled"
    /\ UNCHANGED <<rqAttempt, rqWake, rqLog, rqFetchAt, now>>

TickReq ==
    /\ now < Epoch + MaxReqTicks * TickMs
    /\ now' = now + TickMs
    /\ UNCHANGED varsR

(***************************************************************************)
(* The free provider chain (src/unnamed/part_000): LibreTranslate over its *)
(* endpoints, then the phrase dictionary, then the demo suffix.            *)
(***************************************************************************)
\* case-insensitive comparison of words ('gi' flag of the regular expression)
Lower(w) ==
    CASE w = "Take" -> "take"
      [] w = "Avoid" -> "avoid"
      [] w = "Drink" -> "drink"
      [] w = "Rest" -> "rest"
      [] w = "Water" -> "water"
      [] OTHER -> w

\* number of characters of the words of the dictionary keys
WordLen(w) ==
    CASE Lower(w) = "take" -> 4
      [] w = "medication" -> 10
      [] w = "by" -> 2
      [] w = "mouth" -> 5
      [] w = "for" -> 3
      [] w = "pain" -> 4
      [] OTHER -> 5

RECURSIVE PhraseLen(_)
PhraseLen(p) ==
    IF p = << >> THEN 0
    ELSE IF Len(p) = 1 THEN WordLen(p[1])
    ELSE WordLen(p[1]) + 1 + PhraseLen(Tail(p))

\* this.fallbackTranslations, in source order (a part of the 'es' table)
fallbackTranslations(lang) ==
    IF lang = "es"
    THEN << [english |-> <<"by", "mouth">>, foreign |-> <<"por", "via", "oral">>],
            [english |-> <<"for", "pain">>, foreign |-> <<"para", "el", "dolor">>],
            [english |-> <<"Take", "medication">>, foreign |-> <<"Toma", "medicamento">>],
            [english |-> <<"medication">>, foreign |-> <<"medicamento">>],
            [english |-> <<"pain">>, foreign |-> <<"dolor">>],
            [english |-> <<"take">>, foreign |-> <<"toma">>],
            [english |-> <<"for">>, foreign |-> <<"para">>] >>
    ELSE << >>

\* a variant that sorts the shortest key first
RECURSIVE SortByLength_ShortestFirst(_)
SortByLength_ShortestFirst(entries) ==
    IF entries = << >> THEN << >>
    ELSE LET best == CHOOSE i \in DOMAIN entries :
                        \A j \in DOMAIN entries :
                           \/ PhraseLen(entries[j].english) > PhraseLen(entries[i].english)
                           \/ (PhraseLen(entries[j].english) = PhraseLen(entries[i].english)
                               /\ j >= i)
             rest == [k \in 1..(Len(entries) - 1) |->
                          IF k < best THEN entries[k] ELSE entries[k + 1]]
         IN <<entries[best]>> \o SortByLength_ShortestFirst(rest)

\* Object.entries(fallbackDict).sort((a, b) => b[0].length - a[0].length):
\* a stable sort, longest key first
RECURSIVE SortByLength(_)
SortByLength(entries) ==
    IF entries = << >> THEN << >>
    ELSE LET best == CHOOSE i \in DOMAIN entries :
                        /\ \A j \in DOMAIN entries :
                              PhraseLen(entries[j].english) <= PhraseLen(entries[i].english)
                        /\ \A j \in DOMAIN entries :
                              (j < i) => PhraseLen(entries[j].english) < PhraseLen(entries[i].english)
             rest == [k \in 1..(Len(entries) - 1) |->
                          IF k < best THEN entries[k] ELSE entries[k + 1]]
         IN <<entries[best]>> \o SortByLength(rest)

\* the phrase p stands at position i of the string (whole words: \b...\b)
MatchAt(str, p, i) ==
    /\ i + Len(p) - 1 <= Len(str)
    /\ \A k \in DOMAIN p : Lower(str[i + k - 1]) = Lower(p[k])

HasMatch(str, p) == \E i \in DOMAIN str : MatchAt(str, p, i)

\* translated.replace(exactRegex, foreign): every occurrence, left to right
RECURSIVE ReplaceFrom(_, _, _, _)
ReplaceFrom(str, p, r, i) ==
    IF i > Len(str) THEN << >>
    ELSE IF MatchAt(str, p, i) THEN r \o ReplaceFrom(str, p, r, i + Len(p))
    ELSE <<str[i]>> \o ReplaceFrom(str, p, r, i + 1)

\* the forEach over the sorted entries: the working string and the number
\* of entries that matched
RECURSIVE ApplyEntries(_, _, _)
ApplyEntries(str, entries, matched) ==
    IF entries = << >> THEN [text |-> str, matched |-> matched]
    ELSE ApplyEntries(ReplaceFrom(str, entries[1].english, entries[1].foreign, 1),
                      Tail(entries),
                      IF HasMatch(str, entries[1].english) THEN matched + 1 ELSE matched)

DictionaryItem(item, lang) ==
    ApplyEntries(item, SortByLength(fallbackTranslations(lang)), 0)

\* translateWithEnhancedFallback(text, targetLang): it has no failing path
translateWithEnhancedFallback(text, lang) ==
    [kind |-> "result",
     translatedText |-> [kind |-> text.kind,
                         items |-> [i \in DOMAIN text.items |->
                                       DictionaryItem(text.items[i], lang).text]],
     confidence |-> 60,
     service |-> "Enhanced Fallback Translation",
     originalText |-> UndefinedText]

\* no entry of the dictionary of the language matched in any string
NoDictionaryMatch(text, lang) ==
    \A i \in DOMAIN text.items : DictionaryItem(text.items[i], lang).matched = 0

\* the suffix of translateWithDemo
DemoSuffix(lang) ==
    IF lang = "es" THEN <<"(en", "espanol)">> ELSE <<"(in", lang, ")">>

translateWithDemo(text, lang) ==
    [kind |-> "result",
     translatedText |-> [kind |-> text.kind,
                         items |-> [i \in DOMAIN text.items |->
                                       text.items[i] \o DemoSuffix(lang)]],
     confidence |-> 85,
     service |-> "Demo Mode",
     originalText |-> text]

LibreEndpoints == <<"libretranslate.com", "libretranslate.de">>

LibreResult(text, translations, endpoint) ==
    [kind |-> "result",
     translatedText |-> [kind |-> text.kind, items |-> translations],
     confidence |-> 80,
     service |-> LibreEndpoints[endpoint],
     originalText |-> UndefinedText]

\* inputs of the free chain
FreeLangs == {"en", "es", "xx"}
TakeMedication == <<"Take", "medication">>
DrinkWater == <<"drink", "water">>
EmptyString == << >>
TakeForPain == <<"take", "medication", "for", "pain">>
FreeTexts ==
    { [kind |-> "string", items |-> <<TakeMedication>>],
      [kind |-> "string", items |-> <<TakeForPain>>],
      [kind |-> "string", items |-> <<DrinkWater>>],
      [kind |-> "array", items |-> <<DrinkWater, TakeMedication>>],
      [kind |-> "array", items |-> <<EmptyString, DrinkWater>>] }

\* how one fetch of translateWithLibreTranslate can settle:
\*   ok         2xx, data.translatedText is there
\*   okEmpty    2xx, no data.translatedText: the input string is kept
\*   dataError  2xx with data.error
\*   httpErr    a non-2xx status
\*   neterr     fetch or response.json() rejects
LibreOutcomes == {"ok", "okEmpty", "dataError", "httpErr", "neterr"}

\* the inner loop up to the next fetch: strings that are empty after trim
\* are pushed as they are; the result is the index of the string to fetch
\* next (Len + 1: the endpoint is done) and the translations so far
RECURSIVE SkipEmpty(_, _, _)
SkipEmpty(items, i, translations) ==
    IF i > Len(items) THEN [item |-> i, translations |-> translations]
    ELSE IF items[i] = EmptyString
         THEN SkipEmpty(items, i + 1, Append(translations, items[i]))
         ELSE [item |-> i, translations |-> translations]

\* a catch block that keeps what the failed endpoint had translated
ResetTranslations_Keep(translations) == translations

\* the catch block of an endpoint: translations.length = 0
ResetTranslations(translations) == << >>

IdleFree ==
    /\ ltPc = "idle"
    /\ ltArg = NoArg
    /\ ltEndpoint = 0
    /\ ltItem = 0
    /\ ltTranslations = << >>
    /\ ltLastError = [endpoint |-> 0, kind |-> "none"]
    /\ ltFetched = << >>
    /\ ltRet = NoResult
    /\ lastUsedMethod = "none"

\* translate's loop over the methods after LibreTranslate has thrown: the
\* dictionary method comes next and returns for every string input, with or
\* without a match, so the loop returns its result; translateWithDemo, the
\* method after it, is reached only by a throw of the dictionary method
AfterLibreFailed(text, lang) ==
    translateWithEnhancedFallback(text, lang)

\* translate(text, targetLang, sourceLang) up to its first fetch
TranslateFree(text, targetLang, sourceLang) ==
    /\ ltPc = "idle"
    /\ ltArg' = [text |-> text, target |-> targetLang, source |-> sourceLang, at |-> 0]
    /\ ltLastError' = [endpoint |-> 0, kind |-> "none"]
    /\ IF targetLang = sourceLang
       THEN /\ ltRet' = SameLanguageResult(text)
            /\ ltFetched' = << >>
            /\ ltTranslations' = << >>
            /\ UNCHANGED <<ltPc, ltEndpoint, ltItem, lastUsedMethod>>
       ELSE LET first == SkipEmpty(text.items, 1, << >>)
            IN IF first.item > Len(text.items)
               THEN /\ ltRet' = LibreResult(text, first.translations, 1)
                    /\ lastUsedMethod' = "LibreTranslate"
                    /\ ltFetched' = << >>
                    /\ ltTranslations' = << >>
                    /\ UNCHANGED <<ltPc, ltEndpoint, ltItem>>
               ELSE /\ ltPc' = "fetch"
                    /\ ltEndpoint' = 1
                    /\ ltItem' = first.item
                    /\ ltTranslations' = first.translations
                    /\ ltFetched' = << <<1, first.item>> >>
                    /\ ltRet' = NoResult
                    /\ UNCHANGED lastUsedMethod

\* the pending fetch of translateWithLibreTranslate settles
LibreSettles(outcome) ==
    /\ ltPc = "fetch"
    /\ LET text == ltArg.text
           item == text.items[ltItem]
       IN IF outcome \in {"ok", "okEmpty"}
          THEN LET pushed == Append(ltTranslations,
                                    IF outcome = "ok"
                                    THEN RemoteTranslate(item, ltArg.target)
                                    ELSE item)
                   nxt == SkipEmpty(text.items, ltItem + 1, pushed)
               IN IF nxt.item > Len(text.items)
                  THEN /\ ltRet' = LibreResult(text, nxt.translations, ltEndpoint)
                       /\ lastUsedMethod' = "LibreTranslate"
                       /\ ltPc' = "idle"
                       /\ ltTranslations' = << >>
                       /\ UNCHANGED <<ltEndpoint, ltItem, ltLastError, ltFetched>>
                  ELSE /\ ltItem' = nxt.item
                       /\ ltTranslations' = nxt.translations
                       /\ ltFetched' = Append(ltFetched, <<ltEndpoint, nxt.item>>)
                       /\ UNCHANGED <<ltPc, ltEndpoint, ltLastError, ltRet, lastUsedMethod>>
          ELSE /\ ltLastError' = [endpoint |-> ltEndpoint, kind |-> outcome]
               /\ IF ltEndpoint < Len(LibreEndpoints)
                  THEN LET first == SkipEmpty(text.items, 1, ResetTranslations(ltTranslations))
                       IN /\ ltEndpoint' = ltEndpoint + 1
                          /\ ltItem' = first.item
                          /\ ltTranslations' = first.translations
                          /\ ltFetched' = Append(ltFetched, <<ltEndpoint + 1, first.item>>)
                          /\ UNCHANGED <<ltPc, ltRet, lastUsedMethod>>
                  ELSE /\ ltRet' = AfterLibreFailed(text, ltArg.target)
                       /\ lastUsedMethod' = "Enhanced Fallback"
                       /\ ltPc' = "idle"
                       /\ ltTranslations' = << >>
                       /\ UNCHANGED <<ltEndpoint, ltItem, ltFetched>>
    /\ UNCHANGED ltArg

\* the endpoint never answers the pending fetch; the call has no timeout
\* and no abort signal (lines 1047-1053), so nothing wakes the call
LibreStalls ==
    /\ ltPc = "fetch"
    /\ ltPc' = "stalled"
    /\ UNCHANGED <<ltArg, ltEndpoint, ltItem, ltTranslations, ltLastError,
                   ltFetched, ltRet, lastUsedMethod>>

(***************************************************************************)
(* The aggregation pass (src/js/app.js).  Two passes exist in the file:    *)
(* translateMedicalData (lines 1177-1224) and the loop inside the first    *)
(* processDischargeData (lines 305-337).                                   *)
(*                                                                         *)
(* agPc: "idle", "await" (the resolver call for agSection is pending) or   *)
(* "done".  agSent: the categories sent to the resolver, in order;         *)
(* agThrown: the categories for which the resolver raised; agConfs: the    *)
(* confidence of the result the resolver returned for a category (0: no    *)
(* result).                                                                *)
(***************************************************************************)
sectionsToTranslate ==
    <<"diagnoses", "medications", "instructions",
      "returnReasons", "followUp", "procedures">>

Sections == {sectionsToTranslate[i] : i \in DOMAIN sectionsToTranslate}

Passes == {"translateMedicalData", "processDischargeData"}

currentLanguage == "es"

\* the lists a category of the parsed record can hold
SectionLists == { << >>, << <<"rest">> >> }
ParsedRecords == [Sections -> SectionLists]

\* what translate can resolve to for a list: a list of strings, or (as the
\* backend may answer) one string, which the pass wraps into a list
ResultShapes == {"array", "string"}

ResolverResult(list, shape) ==
    IF shape = "array"
    THEN [kind |-> "result",
          translatedText |-> MapItems([kind |-> "array", items |-> list], currentLanguage),
          confidence |-> 90, service |-> "Google Translate"]
    ELSE [kind |-> "result",
          translatedText |-> [kind |-> "string",
                              items |-> <<RemoteTranslate(list[1], currentLanguage)>>],
          confidence |-> 70, service |-> "Backend Service"]

\* Array.isArray(result.translatedText) ? result.translatedText : [result.translatedText]
AsList(translatedText) == translatedText.items

\* the next category at or after position i that passes
\* `parsedData[section] && parsedData[section].length > 0`
RECURSIVE NextSection(_, _)
NextSection(parsedData, i) ==
    IF i > Len(sectionsToTranslate) THEN i
    ELSE IF parsedData[sectionsToTranslate[i]] # << >> THEN i
    ELSE NextSection(parsedData, i + 1)

\* the total divided by the number of categories of the pass
AverageConfidence_AllSections(total, count) ==
    [num |-> total, den |-> Len(sectionsToTranslate)]

\* translationCount > 0 ? totalConfidence / translationCount : 0, as a fraction
AverageConfidence(total, count) ==
    IF count > 0 THEN [num |-> total, den |-> count] ELSE [num |-> 0, den |-> 1]

IdleAggregator ==
    /\ agPc = "idle"
    /\ agPass = "translateMedicalData"
    /\ agParsed = [s \in Sections |-> << >>]
    /\ agData = [s \in Sections |-> << >>]
    /\ agErrors = << >>
    /\ agSection = 0
    /\ agTotal = 0
    /\ agCount = 0
    /\ agService = ""
    /\ agConfidence = AverageConfidence(0, 0)
    /\ agSent = << >>
    /\ agThrown = {}
    /\ agConfs = [s \in Sections |-> 0]

\* the loop moves on from position i: it awaits the resolver for the next
\* non-empty category, or the pass ends
Advance(parsedData, i, total, count) ==
    LET j == NextSection(parsedData, i)
    IN /\ agSection' = j
       /\ IF j > Len(sectionsToTranslate)
          THEN /\ agPc' = "done"
               /\ agConfidence' = AverageConfidence(total, count)
               /\ agSent' = agSent
          ELSE /\ agPc' = "await"
               /\ agConfidence' = agConfidence
               /\ agSent' = Append(agSent, sectionsToTranslate[j])

\* the pass starts: data: { ...parsedData }, errors: []
StartPass(pass, parsedData) ==
    /\ agPc = "idle"
    /\ agPass' = pass
    /\ agParsed' = parsedData
    /\ agData' = parsedData
    /\ Advance(parsedData, 1, 0, 0)
    /\ UNCHANGED <<agErrors, agTotal, agCount, agService, agThrown, agConfs>>

\* the awaited translate call resolves
ResolverReturns(shape) ==
    /\ agPc = "await"
    /\ LET section == sectionsToTranslate[agSection]
           result == ResolverResult(agParsed[section], shape)
       IN /\ agData' = [agData EXCEPT ![section] = AsList(result.translatedText)]
          /\ IF agPass = "translateMedicalData"
             THEN /\ agTotal' = agTotal + result.confidence
                  /\ agCount' = agCount + 1
                  /\ agService' = IF agService = "" THEN result.service ELSE agService
             ELSE UNCHANGED <<agTotal, agCount, agService>>
          /\ agConfs' = [agConfs EXCEPT ![section] = result.confidence]
          /\ Advance(agParsed, agSection + 1, agTotal', agCount')
    /\ UNCHANGED <<agPass, agParsed, agErrors, agThrown>>

\* the catch block: translateMedicalData pushes `Failed to translate
\* ${section}: ...` (line 1215); the loop of processDischargeData only logs
\* to the console and re-assigns the original list (lines 330-334)
ErrorsAfterThrow(pass, errors, section) ==
    IF pass = "translateMedicalData" THEN Append(errors, section) ELSE errors

\* the awaited translate call rejects
ResolverThrows ==
    /\ agPc = "await"
    /\ LET section == sectionsToTranslate[agSection]
       IN /\ agErrors' = ErrorsAfterThrow(agPass, agErrors, section)
          /\ agData' = [agData EXCEPT ![section] = agParsed[section]]
          /\ agThrown' = agThrown \cup {section}
    /\ Advance(agParsed, agSection + 1, agTotal, agCount)
    /\ UNCHANGED <<agPass, agParsed, agTotal, agCount, agService, agConfs>>

(***************************************************************************)
(* The application (src/js/app.js): processManualInput / handleQRResult,   *)
(* the change handler of languageSelect and processDischargeData.          *)
(*                                                                         *)
(* appRuns: the processDischargeData calls that are suspended at an await  *)
(* of translate; each has the number of its request, the raw data it       *)
(* works on and the languages its translate calls were made with.          *)
(* appRendered: what displayResults showed last.  appSubmitted: the raw    *)
(* data of the latest user submission; appLatest: the number of the latest *)
(* request that began a run.                                               *)
(***************************************************************************)
AppLangs == {"en", "es", "fr"}
RawData == {"d1", "d2"}
NoData == "null"

\* the number of non-empty categories of the parsed records
AppSections == 2

MaxRequests == 4

NothingRendered == [req |-> 0, raw |-> NoData, langs |-> << >>]

InitApp ==
    /\ appLanguage = "en"
    /\ currentData = NoData
    /\ isProcessing = FALSE
    /\ appRuns = {}
    /\ appRendered = NothingRendered
    /\ appSeq = 0
    /\ appSubmitted = NoData
    /\ appLatest = 0

\* processDischargeData(rawData, isRetranslation) from its guard to its
\* first await, or to its end when currentLanguage is 'en' (nothing is
\* awaited then: displayResults and the finally block run at once)
processDischargeData(rawData, isRetranslation) ==
    IF isProcessing /\ ~isRetranslation
    THEN UNCHANGED <<currentData, isProcessing, appRuns, appRendered, appLatest>>
    ELSE /\ currentData' = IF isRetranslation THEN currentData ELSE rawData
         /\ appLatest' = appSeq + 1
         /\ IF appLanguage' # "en"
            THEN /\ isProcessing' = TRUE
                 /\ appRuns' = appRuns \cup
                       {[req |-> appSeq + 1, raw |-> rawData, langs |-> <<appLanguage'>>]}
                 /\ UNCHANGED appRendered
            ELSE /\ isProcessing' = FALSE
                 /\ appRendered' = [req |-> appSeq + 1, raw |-> rawData, langs |-> << >>]
                 /\ UNCHANGED appRuns

\* processManualInput / handleQRResult: the user submits raw data
Submit(rawData) ==
    /\ appSeq < MaxRequests
    /\ appSeq' = appSeq + 1
    /\ appSubmitted' = rawData
    /\ UNCHANGED appLanguage
    /\ processDischargeData(rawData, FALSE)

\* the change handler of languageSelect
ChangeLanguage(lang) ==
    /\ appSeq < MaxRequests
    /\ lang # appLanguage
    /\ appSeq' = appSeq + 1
    /\ appLanguage' = lang
    /\ UNCHANGED appSubmitted
    /\ IF currentData # NoData
       THEN processDischargeData(currentData, TRUE)
       ELSE UNCHANGED <<currentData, isProcessing, appRuns, appRendered, appLatest>>

\* the translate call a run awaits settles (resolved or rejected: the pass
\* goes on either way): the run calls translate for its next category with
\* the language selected now, or, after the last one, renders and leaves
RunResumes(run) ==
    /\ run \in appRuns
    /\ IF Len(run.langs) < AppSections
       THEN /\ appRuns' = (appRuns \ {run}) \cup
                   {[run EXCEPT !.langs = Append(run.langs, appLanguage)]}
            /\ UNCHANGED <<appRendered, isProcessing>>
       ELSE /\ appRuns' = appRuns \ {run}
            /\ appRendered' = run
            /\ isProcessing' = FALSE
    /\ UNCHANGED <<appLanguage, currentData, appSeq, appSubmitted, appLatest>>

(***************************************************************************)
(* The structuring engine (src/js/medical-parser.js).                      *)
(*                                                                         *)
(* A line is its words, the section its header names ("none" for a line    *)
(* that matches no section pattern) and the words after the colon of the   *)
(* header.  A string of the record is a sequence of words.                 *)
(*                                                                         *)
(* psPc: "idle" or "lines" (inside the loop of parseUnstructuredText, at   *)
(* line psI).  lastIndex: the lastIndex of the section patterns of the     *)
(* instance.  psAttr: for every line put into the buffer, the section that *)
(* was current then and the section it was flushed into.  psOut: what the last call returned or that it        *)
(* raised; psFirst: the first call of the instance and its outcome.        *)
(***************************************************************************)
MedicationsHeader ==
    [section |-> "medications", words |-> <<"Medications:", "Take", "aspirin", "daily">>,
     after |-> <<"Take", "aspirin", "daily">>]
InstructionsHeader ==
    [section |-> "instructions", words |-> <<"Instructions:">>, after |-> << >>]
RestLine == [section |-> "none", words |-> <<"Rest">>, after |-> << >>]
NpoLine == [section |-> "none", words |-> <<"NPO">>, after |-> << >>]

LineSet == {MedicationsHeader, InstructionsHeader, RestLine, NpoLine}

MaxLines == 2

TextsOfLines == UNION {[1..n -> LineSet] : n \in 0..MaxLines}

\* the lines of the texts the non-text inputs are parsed as when they fall
\* back to parseUnstructuredText
NullLine == [section |-> "none", words |-> <<"null">>, after |-> << >>]
BadJsonLine == [section |-> "none", words |-> <<"{bad", "json">>, after |-> << >>]

\* raw data: plain text, JSON text of an object with a diagnoses field, JSON
\* text of an object with a procedures and an allergies field, the
\* JSON text `null`, the text `{bad json`, XML text with and without a
\* diagnosis element, and a value that is not a string
RawInputs ==
    {[form |-> "text", lines |-> t, items |-> << >>] : t \in TextsOfLines}
    \cup {[form |-> "json", lines |-> << >>,
           items |-> << <<"Pneumonia">>, <<"Pneumonia">>, <<"Chronic", "Pneumonia">> >>],
          [form |-> "jsonProcedures", lines |-> << >>, items |-> << <<"Appendectomy">> >>],
          [form |-> "jsonNull", lines |-> <<NullLine>>, items |-> << >>],
          [form |-> "badJson", lines |-> <<BadJsonLine>>, items |-> << >>],
          [form |-> "xml", lines |-> << >>, items |-> << <<"Pneumonia">> >>],
          [form |-> "xml", lines |-> << >>, items |-> << >>],
          [form |-> "object", lines |-> << >>, items |-> << >>]}

ResultSections ==
    {"diagnoses", "medications", "instructions", "returnReasons", "followUp",
     "procedures", "vitalSigns", "allergies"}

\* the order of Object.entries(this.sectionPatterns)
PatternOrder ==
    <<"diagnoses", "medications", "instructions", "returnReasons", "followUp",
      "procedures", "allergies">>

EmptySections == [c \in ResultSections |-> << >>]

\* number of characters of a word
ItemLength(w) == IF w = "NPO" THEN 3 ELSE 4

\* isJsonString(str): JSON.parse(str) does not throw.  A value that is not
\* a string is converted to one first ("[object Object]", not JSON)
isJsonString(raw) == raw.form \in {"json", "jsonProcedures", "jsonNull"}

\* isXmlString(str) calls str.trim(): a TypeError for a value that has none
isXmlStringThrows(raw) == raw.form = "object"

isXmlString(raw) == raw.form = "xml"

\* parseStructuredData(data) reads data[possibleKey]: a TypeError for null
parseStructuredDataThrows(raw) == raw.form = "jsonNull"

\* parseUnstructuredText(text) calls text.split(): a TypeError for a value
\* that has none
parseUnstructuredTextThrows(raw) == raw.form = "object"

\* parseDischargeData up to the path it takes: "structured", "xml",
\* "unstructured" (from the try block or from the catch block), or "raise"
\* when the catch block itself throws
ParsePath(raw) ==
    IF isJsonString(raw)
    THEN IF parseStructuredDataThrows(raw)
         THEN IF parseUnstructuredTextThrows(raw) THEN "raise" ELSE "unstructured"
         ELSE "structured"
    ELSE IF isXmlStringThrows(raw)
         THEN IF parseUnstructuredTextThrows(raw) THEN "raise" ELSE "unstructured"
         ELSE IF isXmlString(raw) THEN "xml" ELSE "unstructured"

\* a variant for a global pattern: the search starts at lastIndex, where a
\* pattern anchored at ^ matches only if lastIndex is 0; a match sets
\* lastIndex behind it and a failure sets it to 0
RegexTest_Global(lastIdx, matches) ==
    IF lastIdx = 0 /\ matches
    THEN [found |-> TRUE, lastIndex |-> 1]
    ELSE [found |-> FALSE, lastIndex |-> 0]

\* pattern.test(lowerLine) for a pattern that is anchored at ^ and not
\* global: the search starts at 0 and lastIndex is left alone
RegexTest(lastIdx, matches) ==
    [found |-> matches, lastIndex |-> lastIdx]

\* detectSectionType(lowerLine): the first section, in the order of the
\* pattern table, with a pattern that matches
RECURSIVE detectSectionType(_, _, _)
detectSectionType(line, k, lastIdx) ==
    IF k > Len(PatternOrder) THEN [section |-> "none", lastIndex |-> lastIdx]
    ELSE LET sec == PatternOrder[k]
             t == RegexTest(lastIdx[sec], line.section = sec)
             idx == [lastIdx EXCEPT ![sec] = t.lastIndex]
         IN IF t.found THEN [section |-> sec, lastIndex |-> idx]
            ELSE detectSectionType(line, k + 1, idx)

\* buffer.join(' ')
RECURSIVE JoinWords(_)
JoinWords(buf) ==
    IF buf = << >> THEN << >> ELSE buf[1] \o JoinWords(Tail(buf))

\* splitIntoItems(text): the delimiter class holds white space, so the text
\* is split into its words; items of at most 3 characters are dropped
RECURSIVE splitIntoItems(_)
splitIntoItems(content) ==
    IF content = << >> THEN << >>
    ELSE (IF ItemLength(content[1]) > 3 THEN << <<content[1]>> >> ELSE << >>)
         \o splitIntoItems(Tail(content))

\* parseMedications(text): the text has no `;` or `,`, so it is one entry;
\* parseSingleMedication gives it back (third pattern, or looksMedication)
\* or gives null, and then the text itself is the fallback
parseMedications(content) == <<content>>

\* parseProcedures(text): the items that name a procedure, else the text
parseProcedures(content) == <<content>>

\* addToSection(result, section, buffer)
addToSection(result, section, buf) ==
    LET content == JoinWords(buf)
    IN IF content = << >> THEN result
       ELSE IF section = "medications"
            THEN [result EXCEPT ![section] = @ \o parseMedications(content)]
            ELSE IF section = "procedures"
                 THEN [result EXCEPT ![section] = @ \o parseProcedures(content)]
                 ELSE [result EXCEPT ![section] = @ \o splitIntoItems(content)]

\* .filter((item, index, arr) => arr.indexOf(item) === index)
RECURSIVE RemoveDuplicates(_)
RemoveDuplicates(items) ==
    IF items = << >> THEN << >>
    ELSE LET n == Len(items)
             front == RemoveDuplicates(SubSeq(items, 1, n - 1))
         IN IF \E i \in 1..(n - 1) : items[i] = items[n]
            THEN front ELSE Append(front, items[n])

\* the values new Date() can give
ParseDates == {1, 2}

\* prioritizeInstructions(instructions): no word of the model is an urgency
\* keyword, so every instruction has the default priority
prioritizeInstructions(instructions) ==
    [i \in DOMAIN instructions |-> [text |-> instructions[i], priority |-> "medium"]]

expectedSections ==
    {"diagnoses", "medications", "instructions", "returnReasons", "followUp"}

\* a score that also counts the procedures
calculateCompleteness_WithProcedures(result) ==
    [num |-> Cardinality({c \in expectedSections \cup {"procedures"} : result[c] # << >>}),
     den |-> Cardinality(expectedSections) + 1]

\* calculateCompleteness(result): completedSections.length /
\* expectedSections.length, as a fraction
calculateCompleteness(result) ==
    [num |-> Cardinality({c \in expectedSections : result[c] # << >>}),
     den |-> Cardinality(expectedSections)]

\* enhanceStructuredData(result): the arrays without empty strings and exact
\* duplicates (enhanceMedication changes no string of the model, none has a
\* dosage, a frequency or a timing), the priorities and the metadata
enhanceStructuredData(result, date) ==
    LET clean == [c \in ResultSections |-> RemoveDuplicates(result[c])]
        prio == prioritizeInstructions(clean["instructions"])
    IN [kind |-> "record",
        sections |-> clean,
        prioritizedInstructions |-> prio,
        metadata |->
          [parseDate |-> date,
           totalSections |-> Cardinality({c \in ResultSections : clean[c] # << >>})
                             + (IF prio # << >> THEN 1 ELSE 0),
           hasStructuredData |->
              \E c \in {"diagnoses", "medications", "procedures"} : clean[c] # << >>,
           completeness |-> calculateCompleteness(clean)]]

\* parseStructuredData(data) and parseXmlData(xmlString): the entries of the
\* diagnoses field (of the diagnosis elements) go to result.diagnoses.  An
\* XML text without known elements is not parsed as text: patientInfo is
\* {}, which the test of line 170 does not take for empty
parseStructuredData(raw, date) ==
    enhanceStructuredData(
       IF raw.form = "jsonProcedures"
       THEN [EmptySections EXCEPT !["procedures"] = raw.items, !["allergies"] = raw.items]
       ELSE [EmptySections EXCEPT !["diagnoses"] = raw.items], date)

NoOutcome == [kind |-> "none"]
Raised == [kind |-> "raised"]
NoFirst ==
    [raw |-> [form |-> "none", lines |-> << >>, items |-> << >>], out |-> NoOutcome,
     others |-> FALSE, again |-> FALSE]

IdleParser ==
    /\ psPc = "idle"
    /\ psRaw = [form |-> "text", lines |-> << >>, items |-> << >>]
    /\ psI = 0
    /\ currentSection = "instructions"
    /\ buffer = << >>
    /\ psResult = EmptySections
    /\ lastIndex = [c \in ResultSections |-> 0]
    /\ psAttr = << >>
    /\ psOut = NoOutcome
    /\ psFirst = NoFirst

\* an outcome without its time stamp
WithoutParseDate(out) ==
    IF out.kind = "record" THEN [out EXCEPT !.metadata.parseDate = 0] ELSE out

\* a later call begins: psFirst notes whether it is for the raw data of the
\* first call again, and whether other raw data was parsed since
LaterCall(raw) ==
    IF psFirst = NoFirst THEN psFirst
    ELSE [psFirst EXCEPT !.again = (raw = psFirst.raw),
                         !.others = @ \/ (raw # psFirst.raw)]

\* the call returns or raises
ParseEnds(raw, out, first) ==
    /\ psOut' = out
    /\ psFirst' = IF first = NoFirst
                  THEN [raw |-> raw, out |-> WithoutParseDate(out),
                        others |-> FALSE, again |-> FALSE]
                  ELSE first

\* parseDischargeData(rawData) up to the loop of parseUnstructuredText, or
\* to its end on the other paths
ParseStart(raw) ==
    /\ psPc = "idle"
    /\ psRaw' = raw
    /\ psAttr' = << >>
    /\ psResult' = EmptySections
    /\ currentSection' = "instructions"
    /\ buffer' = << >>
    /\ UNCHANGED lastIndex
    /\ LET path == ParsePath(raw)
       IN CASE path = "raise" ->
                 /\ ParseEnds(raw, Raised, LaterCall(raw))
                 /\ UNCHANGED <<psPc, psI>>
            [] path \in {"structured", "xml"} ->
                 /\ \E date \in ParseDates :
                       ParseEnds(raw, parseStructuredData(raw, date), LaterCall(raw))
                 /\ UNCHANGED <<psPc, psI>>
            [] OTHER ->
                 /\ psPc' = "lines"
                 /\ psI' = 1
                 /\ psOut' = NoOutcome
                 /\ psFirst' = LaterCall(raw)

\* a variant that flushes after the cursor has moved
FlushSection_AfterSwitch(current, detected) == detected

\* the section the buffer is flushed into when a header is detected
FlushSection(current, detected) == current

\* the lines of the buffer are noted as flushed into the section
MarkFlushed(attr, section) ==
    [k \in DOMAIN attr |->
        IF attr[k].flushed = "none" THEN [attr[k] EXCEPT !.flushed = section] ELSE attr[k]]

\* one iteration of the loop over the lines
ReadLine ==
    /\ psPc = "lines"
    /\ psI <= Len(psRaw.lines)
    /\ LET line == psRaw.lines[psI]
           det == detectSectionType(line, 1, lastIndex)
           target == FlushSection(currentSection, det.section)
       IN /\ lastIndex' = det.lastIndex
          /\ IF det.section # "none" /\ det.section # currentSection
             THEN /\ psResult' = IF buffer # << >>
                                 THEN addToSection(psResult, target, buffer)
                                 ELSE psResult
                  /\ currentSection' = det.section
                  /\ buffer' = IF line.after # << >> THEN <<line.after>> ELSE << >>
                  /\ psAttr' = IF line.after # << >>
                               THEN Append(MarkFlushed(psAttr, target),
                                           [line |-> psI, section |-> det.section,
                                            words |-> line.after, flushed |-> "none"])
                               ELSE MarkFlushed(psAttr, target)
             ELSE /\ buffer' = Append(buffer, line.words)
                  /\ psAttr' = Append(psAttr, [line |-> psI, section |-> currentSection,
                                               words |-> line.words, flushed |-> "none"])
                  /\ UNCHANGED <<psResult, currentSection>>
    /\ psI' = psI + 1
    /\ UNCHANGED <<psPc, psRaw, psOut, psFirst>>

\* after the last line: the final buffer is flushed, extractMedicalDetails
\* finds none of its patterns in the texts of the model, and the enhanced
\* record is returned
ParseFinish ==
    /\ psPc = "lines"
    /\ psI > Len(psRaw.lines)
    /\ LET flushed == IF buffer # << >>
                      THEN addToSection(psResult, currentSection, buffer)
                      ELSE psResult
       IN /\ psResult' = flushed
          /\ \E date \in ParseDates :
                ParseEnds(psRaw, enhanceStructuredData(flushed, date), psFirst)
    /\ psAttr' = MarkFlushed(psAttr, currentSection)
    /\ psPc' = "idle"
    /\ buffer' = << >>
    /\ UNCHANGED <<psRaw, psI, currentSection, lastIndex>>

(***************************************************************************)
(* The sentence-preserving parser (src/unnamed/part_005).                  *)
(*                                                                         *)
(* The input of a call is given by what the patterns of one category find  *)
(* in the text, in the order of the patterns and of their matches (each    *)
(* match already cleaned), or, when no pattern of any category matches, by *)
(* the sentences of the text.                                              *)
(***************************************************************************)
AvoidToday == <<"avoid", "lifting", "heavy", "objects", "today">>
AvoidTomorrow == <<"avoid", "lifting", "heavy", "objects", "tomorrow">>
AvoidLifting == <<"avoid", "lifting">>
AvoidTodayCapital == <<"Avoid", "lifting", "heavy", "objects", "today">>
AvoidAlone == <<"avoid">>

MatchSet == {AvoidToday, AvoidTomorrow, AvoidLifting, AvoidTodayCapital, AvoidAlone}

MaxMatches == 3

MatchLists == UNION {[1..n -> MatchSet] : n \in 0..MaxMatches}

\* sentences in which no pattern of the parser matches
DrinkPlenty == <<"drink", "plenty", "of", "water">>
RestInBed == <<"rest", "in", "bed">>
RestAlone == <<"rest">>

SentenceSet == {DrinkPlenty, RestInBed, RestAlone}

SentenceLists == UNION {[1..n -> SentenceSet] : n \in 0..MaxMatches}

\* text.toLowerCase()
LowerText(t) == [i \in DOMAIN t |-> Lower(t[i])]

\* a.includes(b) on the words of two strings
Includes(a, b) ==
    \E i \in 1..(Len(a) + 1) : MatchAt(a, b, i)

\* the words of words1 that are in words2
RECURSIVE Intersection(_, _)
Intersection(words1, words2) ==
    IF words1 = << >> THEN 0
    ELSE (IF \E j \in DOMAIN words2 : words2[j] = words1[1] THEN 1 ELSE 0)
         + Intersection(Tail(words1), words2)

\* calculateSimilarity(str1, str2) as the fraction num / den
calculateSimilarity(str1, str2) ==
    [num |-> Intersection(str1, str2), den |-> Max(Len(str1), Len(str2))]

\* a variant that takes a similarity of exactly 0.8 for a duplicate
SimilarEnough_Inclusive(sim) == 10 * sim.num >= 8 * sim.den

\* calculateSimilarity(...) > 0.8
SimilarEnough(sim) == 10 * sim.num > 8 * sim.den

\* isDuplicate(newText, existingArray)
isDuplicate(newText, existingArray) ==
    \E k \in DOMAIN existingArray :
       LET newLower == LowerText(newText)
           existingLower == LowerText(existingArray[k])
       IN \/ Includes(existingLower, newLower)
          \/ Includes(newLower, existingLower)
          \/ SimilarEnough(calculateSimilarity(newLower, existingLower))

\* the forEach over the matches of a category (lines 99-125)
RECURSIVE AddMatches(_, _)
AddMatches(matches, items) ==
    IF matches = << >> THEN items
    ELSE LET cleanedText == matches[1]
         IN AddMatches(Tail(matches),
               IF /\ PhraseLen(cleanedText) > 5
                  /\ ~(\E k \in DOMAIN items : items[k] = cleanedText)
                  /\ ~isDuplicate(cleanedText, items)
               THEN Append(items, cleanedText)
               ELSE items)

\* sentence.charAt(0).toUpperCase() + sentence.slice(1).toLowerCase()
Capitalize(sentence) ==
    [i \in DOMAIN sentence |->
        IF i > 1 THEN Lower(sentence[i])
        ELSE CASE Lower(sentence[i]) = "avoid" -> "Avoid"
               [] Lower(sentence[i]) = "drink" -> "Drink"
               [] Lower(sentence[i]) = "rest" -> "Rest"
               [] OTHER -> sentence[i]]

\* /\w{3,}/.test(sentence)
HasSubstantialWord(sentence) == \E i \in DOMAIN sentence : WordLen(sentence[i]) >= 3

\* a variant that keeps the first 10 sentences
extractSentencesAsMedicalInstructions_FirstTen(sentences) ==
    LET long == SelectSeq(sentences,
                   LAMBDA x : PhraseLen(x) > 10 /\ HasSubstantialWord(x))
        caps == [i \in DOMAIN long |-> Capitalize(long[i])]
    IN SubSeq(caps, 1, Min(Len(caps), 10))

\* extractSentencesAsMedicalInstructions(text): the sentences of more than
\* 10 characters with a word of 3 or more characters, capitalized, the
\* first 8 of them
extractSentencesAsMedicalInstructions(sentences) ==
    LET long == SelectSeq(sentences,
                   LAMBDA x : PhraseLen(x) > 10 /\ HasSubstantialWord(x))
        caps == [i \in DOMAIN long |-> Capitalize(long[i])]
    IN SubSeq(caps, 1, Min(Len(caps), 8))

\* cleanupResult(result): entries of more than 5 characters, at most 10
cleanupResult(items) ==
    LET kept == SelectSeq(items, LAMBDA x : PhraseLen(x) > 5)
    IN SubSeq(kept, 1, Min(Len(kept), 10))

\* parseDischargeData(rawData) for one category: the pattern matches are
\* added one by one; if no category has an entry then, the sentences of the
\* text become the instructions
parseSentencePreserving(path, found) ==
    IF path = "patterns"
    THEN LET items == AddMatches(found, << >>)
         IN cleanupResult(IF items = << >>
                          THEN extractSentencesAsMedicalInstructions(found)
                          ELSE items)
    ELSE cleanupResult(extractSentencesAsMedicalInstructions(found))

NoInput == [path |-> "none", found |-> << >>]

\* the whole record of a call: the patterns of one category match (found,
\* in the order of the patterns and of their matches), the text has the
\* given sentences
DrinkWaterSlowly == <<"drink", "Water", "slowly">>
ByBy == <<"by", "by", "by", "by">>
TakeAspirinDaily == <<"take", "aspirin", "daily">>

FallbackSentences == {DrinkWaterSlowly, DrinkPlenty, ByBy, RestAlone}
FallbackSentenceLists == UNION {[1..n -> FallbackSentences] : n \in 0..MaxMatches}

FoundBy(category) ==
    IF category = "instructions"
    THEN {<< >>, <<AvoidAlone>>, <<AvoidToday>>, <<AvoidToday, AvoidLifting>>}
    ELSE {<< >>, <<TakeAspirinDaily>>}

\* isEmptyResult(result)
isEmptyResult(result) == \A c \in DOMAIN result : result[c] = << >>

parseDischargeDataRecord(category, found, sentences) ==
    LET matched == [c \in Sections |->
                       IF c = category THEN AddMatches(found, << >>) ELSE << >>]
        filled == IF isEmptyResult(matched)
                  THEN [matched EXCEPT !["instructions"] =
                           extractSentencesAsMedicalInstructions(sentences)]
                  ELSE matched
    IN [c \in Sections |-> cleanupResult(filled[c])]

NoFallbackInput == [category |-> "none", found |-> << >>, sentences |-> << >>]

IdleSentenceParser ==
    /\ sxInput = NoInput
    /\ sxResult = << >>
    /\ fbInput = NoFallbackInput
    /\ fbResult = [c \in Sections |-> << >>]

ParseRecord(category, found, sentences) ==
    /\ fbInput' = [category |-> category, found |-> found, sentences |-> sentences]
    /\ fbResult' = parseDischargeDataRecord(category, found, sentences)
    /\ UNCHANGED <<sxInput, sxResult>>

ParseSentences(path, found) ==
    /\ sxInput' = [path |-> path, found |-> found]
    /\ sxResult' = parseSentencePreserving(path, found)
    /\ UNCHANGED <<fbInput, fbResult>>

(***************************************************************************)
(* A provider call with a list of strings (src/js/translator.js 104-168)   *)
(*                                                                         *)
(* The response carries one element per string of the request.  A Google   *)
(* element has a translatedText (possibly empty) and may name the detected *)
(* source language; a Microsoft element may carry a confidence (0: none).  *)
(* btCall is the call that was made, btRet what it returned.               *)
(***************************************************************************)
MaxBatch == 3

GoogleElements == [detected : BOOLEAN, empty : BOOLEAN, conf : {0}]
MicrosoftElements == [detected : {FALSE}, empty : {FALSE}, conf : {0, 50, 90}]

ResponsesOf(elements) == UNION {[1..n -> elements] : n \in 1..MaxBatch}

\* a request of n strings
BatchText(n) == [kind |-> "array", items |-> [i \in 1..n |-> <<"rest">>]]

ElementText(el, item, targetLang) ==
    IF el.empty THEN << >> ELSE RemoteTranslate(item, targetLang)

TranslationsOf(text, response, targetLang) ==
    [kind |-> text.kind,
     items |-> [i \in DOMAIN response |-> ElementText(response[i], text.items[i], targetLang)]]

\* translateWithGoogle once makeRequest returned response.data.translations
translateWithGoogle(text, targetLang, response) ==
    [kind |-> "result",
     translatedText |-> TranslationsOf(text, response, targetLang),
     confidence |-> calculateConfidence(response[1].detected, 0,
                       StrLen(ElementText(response[1], text.items[1], targetLang))),
     service |-> "google", originalText |-> text]

\* translateWithMicrosoft once makeRequest returned the response array
translateWithMicrosoft(text, targetLang, response) ==
    [kind |-> "result",
     translatedText |-> TranslationsOf(text, response, targetLang),
     confidence |-> IF response[1].conf # 0 THEN response[1].conf ELSE 80,
     service |-> "microsoft", originalText |-> text]

BatchResult(p, text, targetLang, response) ==
    IF p = "google" THEN translateWithGoogle(text, targetLang, response)
    ELSE translateWithMicrosoft(text, targetLang, response)

NoBatch == [provider |-> "none", text |-> UndefinedText, response |-> << >>]

IdleBatch ==
    /\ btCall = NoBatch
    /\ btRet = NoResult

GoogleReturns(response) ==
    /\ btCall' = [provider |-> "google", text |-> BatchText(Len(response)),
                  response |-> response]
    /\ btRet' = translateWithGoogle(BatchText(Len(response)), "es", response)

MicrosoftReturns(response) ==
    /\ btCall' = [provider |-> "microsoft", text |-> BatchText(Len(response)),
                  response |-> response]
    /\ btRet' = translateWithMicrosoft(BatchText(Len(response)), "es", response)

(***************************************************************************)
(* QR codes: generateQRCode (src/unnamed/part_004 47-68) and handleQRResult *)
(* / processMedicalQRCode (src/js/app.js 209-259).                          *)
(*                                                                         *)
(* A JSON value is [type, value] with type "string" or "object".  qrCode   *)
(* is the text of the QR code last generated; qrScan is the payload of the *)
(* last scan, what was handed to processDischargeData and how that ended.  *)
(***************************************************************************)
QRLangs == {"en", "es"}

\* the envelope built by generateQRCode; the app passes the parsed record
\* (src/js/app.js 359-366, 1912-1916), which is an object
generateQRCode(dischargeData, translationData, language) ==
    [type |-> "medical_discharge",
     language |-> language,
     data |-> [original |-> [type |-> "object", value |-> dischargeData],
               translated |-> [type |-> "object", value |-> translationData],
               language |-> language]]

\* JSON.stringify(qrData): the text of the QR code
JsonStringify(value) == [type |-> "string", json |-> TRUE, value |-> value]

\* a QR code that holds plain discharge text
PlainText == [type |-> "string", json |-> FALSE, value |-> << <<"rest">> >>]

\* JSON.parse(data): the value the text stands for, or a SyntaxError
JsonParse(data) ==
    IF data.json THEN [ok |-> TRUE, value |-> data.value]
    ELSE [ok |-> FALSE, value |-> << >>]

\* what handleQRResult hands to processDischargeData: the original field of
\* an envelope of the app, or the scanned text itself
handleQRResultFeeds(data) ==
    LET parsed == JsonParse(data)
    IN IF parsed.ok /\ parsed.value.type = "medical_discharge"
       THEN parsed.value.data.original
       ELSE [type |-> "string", value |-> data.value]

\* the raw data of the structuring engine for a fed value
RawOf(fed) ==
    IF fed.type = "object"
    THEN [form |-> "object", lines |-> << >>, items |-> << >>]
    ELSE [form |-> "text", lines |-> << >>, items |-> << >>]

\* processDischargeData(rawData) for a value: parseDischargeData raises and
\* the catch block shows the error, or the record is displayed
ProcessingOutcome(fed) ==
    IF ParsePath(RawOf(fed)) = "raise" THEN "error" ELSE "rendered"

NoScan == [payload |-> "none", outcome |-> "none"]

IdleQR ==
    /\ qrCode = PlainText
    /\ qrScan = NoScan

\* a processing run ends and generates the QR code of its record
GenerateQR(record, language) ==
    /\ qrCode' = JsonStringify(generateQRCode(record, record, language))
    /\ qrScan' = NoScan

\* handleQRResult(result) for the QR code last generated or for a QR code
\* with plain text
handleQRResult(data) ==
    /\ qrScan.payload = "none"
    /\ qrScan' = [payload |-> IF data.json THEN "envelope" ELSE "text",
                  fed |-> handleQRResultFeeds(data),
                  outcome |-> ProcessingOutcome(handleQRResultFeeds(data))]
    /\ UNCHANGED qrCode

(***************************************************************************)
(* An aggregation pass together with the resolver (src/js/app.js 1193-1217 *)
(* calling src/js/translator.js 29-99), the provider succeeding on every   *)
(* call.                                                                   *)
(*                                                                         *)
(* rpRun: pc is "idle", "await" (the provider call for the category at     *)
(* position section is pending) or "done"; data and errors are those of    *)
(* translationResults.  rpCache: the lists that have a cache entry;        *)
(* rpRate: the rate-limit timestamps; rpNow: Date.now().                   *)
(* Nothing is awaited between the return of translate for one category and *)
(* the call for the next one, so both happen at the same instant.          *)
(***************************************************************************)
\* a category is empty, or holds a text of its own, or the text "rest"
PassList(section, kind) ==
    CASE kind = "own" -> << <<section>> >>
      [] kind = "rest" -> << <<"rest">> >>
      [] OTHER -> << >>

PassRecords ==
    {[c \in Sections |-> PassList(c, kinds[c])] :
        kinds \in [Sections -> {"empty", "own", "rest"}]}

TranslatedList(list) == MapItems([kind |-> "array", items |-> list], currentLanguage).items

\* the loop from position i on, up to the next provider call or to its end:
\* translate returns at once on a cache hit and throws at once when the
\* target language is rate limited
RECURSIVE RunFrom(_, _, _, _, _, _)
RunFrom(parsedData, i, run, cached, rl, t) ==
    IF i > Len(sectionsToTranslate)
    THEN [run EXCEPT !.pc = "done", !.section = i]
    ELSE LET section == sectionsToTranslate[i]
             list == parsedData[section]
             route == TranslateRoute(currentLanguage, "en", list \in cached,
                                     isRateLimitedAt(rl, currentLanguage, t), 1)
         IN IF list = << >> THEN RunFrom(parsedData, i + 1, run, cached, rl, t)
            ELSE CASE route = "hit" ->
                        RunFrom(parsedData, i + 1,
                                [run EXCEPT !.data[section] = TranslatedList(list)],
                                cached, rl, t)
                   [] route = "chain" ->
                        [run EXCEPT !.pc = "await", !.section = i]
                   [] OTHER ->
                        RunFrom(parsedData, i + 1,
                                [run EXCEPT !.errors = Append(@, section)],
                                cached, rl, t)

IdleRun == [pc |-> "idle", section |-> 0, data |-> [c \in Sections |-> << >>],
            errors |-> << >>]

IdlePass ==
    /\ rpParsed = [c \in Sections |-> << >>]
    /\ rpRun = IdleRun
    /\ rpCache = {}
    /\ rpRate = [l \in Langs |-> 0]
    /\ rpNow = Epoch

\* translateMedicalData(parsedData) up to its first await
PassBegins(parsedData) ==
    /\ rpRun.pc = "idle"
    /\ rpParsed' = parsedData
    /\ rpRun' = RunFrom(parsedData, 1, [IdleRun EXCEPT !.data = parsedData],
                        rpCache, rpRate, rpNow)
    /\ UNCHANGED <<rpCache, rpRate, rpNow>>

\* the provider answers: translate caches the result, writes the rate-limit
\* timestamp and returns, and the loop goes on
ProviderSucceeds ==
    /\ rpRun.pc = "await"
    /\ LET section == sectionsToTranslate[rpRun.section]
           list == rpParsed[section]
       IN /\ rpCache' = rpCache \cup {list}
          /\ rpRate' = [rpRate EXCEPT ![currentLanguage] = rpNow]
          /\ rpRun' = RunFrom(rpParsed, rpRun.section + 1,
                              [rpRun EXCEPT !.data[section] = TranslatedList(list)],
                              rpCache', rpRate', rpNow)
    /\ UNCHANGED <<rpParsed, rpNow>>

\* time passes while the provider call is pending
PassTick ==
    /\ rpRun.pc = "await"
    /\ rpNow < Epoch + MaxTicks * TickMs
    /\ rpNow' = rpNow + TickMs
    /\ UNCHANGED <<rpParsed, rpRun, rpCache, rpRate>>

(***************************************************************************)
(* Specifications                                                          *)
(***************************************************************************)
\* translate calls made one after the other (at most one in flight)
Init ==
    /\ slots = {"c1"}
    /\ InitResolver
    /\ IdleRequest
    /\ IdleFree
    /\ IdleAggregator
    /\ InitApp
    /\ IdleParser
    /\ IdleSentenceParser
    /\ IdleBatch
    /\ IdleQR
    /\ IdlePass

Next ==
    /\ \/ \E c \in Calls, x \in Texts, t \in Langs, s \in Langs : Translate(c, x, t, s)
       \/ \E c \in Calls, threw \in BOOLEAN, payload \in Payloads : ProviderReturn(c, threw, payload)
       \/ clearCache
       \/ Tick
    /\ UNCHANGED <<varsR, varsF, varsA, varsP, varsM, varsX, varsB, varsQ, varsS>>

Spec == Init /\ [][Next]_vars

\* two translate calls that may be in flight at the same time, with the
\* Google and the backend provider configured
InitConcurrent ==
    /\ slots = Calls
    /\ InitResolver
    /\ apiKeys = {"google", "backend"}
    /\ IdleRequest
    /\ IdleFree
    /\ IdleAggregator
    /\ InitApp
    /\ IdleParser
    /\ IdleSentenceParser
    /\ IdleBatch
    /\ IdleQR
    /\ IdlePass

NextConcurrent ==
    /\ \/ \E c \in Calls, t \in Langs : Translate(c, StrText, t, "en")
       \/ \E c \in Calls, threw \in BOOLEAN, payload \in Payloads : ProviderReturn(c, threw, payload)
       \/ clearCache
       \/ Tick
    /\ UNCHANGED <<varsR, varsF, varsA, varsP, varsM, varsX, varsB, varsQ, varsS>>

SpecConcurrent == InitConcurrent /\ [][NextConcurrent]_vars

\* one makeRequest call on its own
InitReq ==
    /\ slots = {}
    /\ InitResolver
    /\ apiKeys = {}
    /\ IdleRequest
    /\ IdleFree
    /\ IdleAggregator
    /\ InitApp
    /\ IdleParser
    /\ IdleSentenceParser
    /\ IdleBatch
    /\ IdleQR
    /\ IdlePass

NextReq ==
    /\ \/ MakeRequest
       \/ \E o \in FetchOutcomes : FetchSettles(o)
       \/ Wake
       \/ FetchStalls
       \/ TickReq
    /\ UNCHANGED <<slots, apiKeys, cache, rateLimiter, pc, arg, tried, failedP, last, started>>
    /\ UNCHANGED <<varsF, varsA, varsP, varsM, varsX, varsB, varsQ, varsS>>

SpecReq == InitReq /\ [][NextReq]_vars

\* translate calls of the free provider chain, one after the other
InitFree ==
    /\ slots = {}
    /\ InitResolver
    /\ apiKeys = {}
    /\ IdleRequest
    /\ IdleFree
    /\ IdleAggregator
    /\ InitApp
    /\ IdleParser
    /\ IdleSentenceParser
    /\ IdleBatch
    /\ IdleQR
    /\ IdlePass

NextFree ==
    /\ \/ \E x \in FreeTexts, t \in FreeLangs : TranslateFree(x, t, "en")
       \/ \E o \in LibreOutcomes : LibreSettles(o)
       \/ LibreStalls
    /\ UNCHANGED <<varsT, varsR, varsA, varsP, varsM, varsX, varsB, varsQ, varsS>>

SpecFree == InitFree /\ [][NextFree]_vars

\* every fetch that is answered is handled, and a call can always be made
FairSpecFree ==
    /\ SpecFree
    /\ WF_varsF(\E o \in LibreOutcomes : LibreSettles(o))

\* aggregation passes over parsed records
InitAgg ==
    /\ slots = {}
    /\ InitResolver
    /\ apiKeys = {}
    /\ IdleRequest
    /\ IdleFree
    /\ IdleAggregator
    /\ InitApp
    /\ IdleParser
    /\ IdleSentenceParser
    /\ IdleBatch
    /\ IdleQR
    /\ IdlePass

NextAgg ==
    /\ \/ \E p \in Passes, d \in ParsedRecords : StartPass(p, d)
       \/ \E shape \in ResultShapes : ResolverReturns(shape)
       \/ ResolverThrows
    /\ UNCHANGED <<varsT, varsR, varsF, varsP, varsM, varsX, varsB, varsQ, varsS>>

SpecAgg == InitAgg /\ [][NextAgg]_vars

\* the application under user events
NextApp ==
    /\ \/ \E d \in RawData : Submit(d)
       \/ \E l \in AppLangs : ChangeLanguage(l)
       \/ \E run \in appRuns : RunResumes(run)
    /\ UNCHANGED <<varsT, varsR, varsF, varsA, varsM, varsX, varsB, varsQ, varsS>>

SpecApp == InitAgg /\ [][NextApp]_vars

\* parseDischargeData calls on one parser instance, one after the other
NextParse ==
    /\ \/ \E raw \in RawInputs : ParseStart(raw)
       \/ ReadLine
       \/ ParseFinish
    /\ UNCHANGED <<varsT, varsR, varsF, varsA, varsP, varsX, varsB, varsQ, varsS>>

SpecParse == InitAgg /\ [][NextParse]_vars

\* parseDischargeData calls of the sentence-preserving parser
NextSentences ==
    /\ \/ \E found \in MatchLists : ParseSentences("patterns", found)
       \/ \E found \in SentenceLists : ParseSentences("sentences", found)
    /\ UNCHANGED <<varsT, varsR, varsF, varsA, varsP, varsM, varsB, varsQ, varsS>>

SpecSentences == InitAgg /\ [][NextSentences]_vars

\* calls of the sentence-preserving parser, the whole record observed
NextFallback ==
    /\ \E category \in {"instructions", "medications"} :
          \E found \in FoundBy(category), sentences \in FallbackSentenceLists :
             ParseRecord(category, found, sentences)
    /\ UNCHANGED <<varsT, varsR, varsF, varsA, varsP, varsM, varsB, varsQ, varsS>>

SpecFallback == InitAgg /\ [][NextFallback]_vars

\* QR codes generated from parsed records, and scans
NextQR ==
    /\ \/ \E record \in ParsedRecords, language \in QRLangs : GenerateQR(record, language)
       \/ handleQRResult(qrCode)
       \/ handleQRResult(PlainText)
    /\ UNCHANGED <<varsT, varsR, varsF, varsA, varsP, varsM, varsX, varsB, varsS>>

SpecQR == InitAgg /\ [][NextQR]_vars

\* one aggregation pass that calls the resolver
NextPass ==
    /\ \/ \E parsedData \in PassRecords : PassBegins(parsedData)
       \/ ProviderSucceeds
       \/ PassTick
    /\ UNCHANGED <<varsT, varsR, varsF, varsA, varsP, varsM, varsX, varsB, varsQ>>

SpecPass == InitAgg /\ [][NextPass]_vars

\* provider calls with a list of strings
NextBatch ==
    /\ \/ \E response \in ResponsesOf(GoogleElements) : GoogleReturns(response)
       \/ \E response \in ResponsesOf(MicrosoftElements) : MicrosoftReturns(response)
    /\ UNCHANGED <<varsT, varsR, varsF, varsA, varsP, varsM, varsX, varsQ, varsS>>

SpecBatch == InitAgg /\ [][NextBatch]_vars

(***************************************************************************)
(* Properties of the resolver (Spec)                                       *)
(***************************************************************************)
IsReturn == last.ret # NoResult

\* C1: translate(text, L, L) returns text unchanged with confidence 1.0 and
\* invokes no provider, whatever the cache and the rate limiter hold.
C1_SameLanguageNoOp ==
    (IsReturn /\ last.arg.target = last.arg.source) =>
        /\ last.ret.kind = "result"
        /\ last.ret.translatedText = last.arg.text
        /\ last.ret.confidence = 100
        /\ last.tried = << >>
        /\ \A c \in Calls : pc[c] = "await" => arg[c] # last.arg

\* a same-language call returned while its language was rate-limited and
\* the cache was not empty
C1_Witness ==
    /\ IsReturn
    /\ last.arg.target = last.arg.source
    /\ last.ret.service = "none"
    /\ isRateLimited(last.arg.target)
    /\ \E k \in CacheKeys : cache[k] # NoResult

\* the providers invoked by one call, in the order of invocation, respect
\* the fixed order, the configuration and "first success wins"
ChainRespected(tr, failed) ==
    /\ \A i \in DOMAIN tr : tr[i] \in apiKeys
    /\ \A i, j \in DOMAIN tr : i < j => ProviderIndex(tr[i]) < ProviderIndex(tr[j])
    /\ \A i \in DOMAIN tr : \A q \in AllProviders :
          ProviderIndex(q) < ProviderIndex(tr[i]) =>
              \/ q \notin apiKeys
              \/ q \in failed /\ \E k \in DOMAIN tr : k < i /\ tr[k] = q
    /\ \A i \in DOMAIN tr : i < Len(tr) => tr[i] \in failed

\* C2: in one translate call the providers are attempted in the fixed order
\* google, microsoft, deepl, backend; a provider is invoked only if it is
\* configured and every provider before it was unconfigured or failed; none
\* is invoked after a success; the service tag names the one that succeeded.
C2_ProviderOrder ==
    /\ \A c \in Calls : pc[c] = "await" =>
          /\ ChainRespected(tried[c], failedP[c])
          /\ tried[c][Len(tried[c])] \notin failedP[c]
    /\ (IsReturn /\ last.tried # << >>) =>
          /\ ChainRespected(last.tried, last.failed)
          /\ last.ret.kind = "result" =>
                /\ last.ret.service = last.tried[Len(last.tried)]
                /\ last.ret.service \notin last.failed
          /\ last.ret.kind = "throw" =>
                /\ last.failed = apiKeys
                /\ last.ret = TranslationFailed

\* google failed, microsoft is not configured and was skipped, deepl succeeded
C2_Witness ==
    /\ IsReturn
    /\ last.tried = <<"google", "deepl">>
    /\ last.ret.kind = "result"
    /\ last.ret.service = "deepl"
    /\ "microsoft" \notin apiKeys
    /\ "backend" \in apiKeys

\* C3 (as claimed): a translate call with targetLang # sourceLang is never
\* ended by provider failure; it always returns a result.
C3_NeverRaises ==
    (IsReturn /\ last.arg.target # last.arg.source) => last.ret # TranslationFailed

\* the step is a call of translate; MadeArg is its arguments
CallMade == started' = started + 1

MadeArg ==
    IF last'.ret # NoResult THEN last'.arg
    ELSE arg'[CHOOSE c \in Calls : pc[c] = "idle" /\ pc'[c] = "await"]

MadeKey == cacheKey(MadeArg.text, MadeArg.target, MadeArg.source)

\* C5: a request whose key is in the cache returns the cached result at once,
\* invoking no provider and whatever the rate limiter says; once the cache is
\* cleared the same request goes to the provider chain again.
C5_CacheHit ==
    [][(CallMade /\ MadeArg.target # MadeArg.source) =>
            IF cache[MadeKey] # NoResult
            THEN /\ last'.ret = cache[MadeKey]
                 /\ last'.ret.kind = "result"
                 /\ last'.ret.originalText = MadeArg.text
                 /\ last'.tried = << >>
                 /\ pc' = pc /\ tried' = tried
                 /\ cache' = cache /\ rateLimiter' = rateLimiter
            ELSE (~isRateLimited(MadeArg.target) /\ apiKeys # {}) =>
                    /\ last' = NoLast
                    /\ \E c \in Calls : pc[c] = "idle" /\ pc'[c] = "await"
                                        /\ Len(tried'[c]) = 1]_vars

\* a request was served from the cache while its target language was
\* rate-limited (it came in the same instant as the success before it)
C5_Witness ==
    /\ IsReturn
    /\ last.arg.target # last.arg.source
    /\ last.ret.kind = "result"
    /\ last.tried = << >>
    /\ isRateLimited(last.arg.target)
    /\ last.arg.at = rateLimiter[last.arg.target]

C6_WitnessBoundary ==
    \E c \in Calls :
        /\ pc[c] = "await"
        /\ rateLimiter[arg[c].target] # 0
        /\ arg[c].at - rateLimiter[arg[c].target] = RateWindowMs

(***************************************************************************)
(* Properties of makeRequest (SpecReq)                                     *)
(***************************************************************************)
\* C7: one makeRequest call performs at most 3 fetches whatever mix of
\* connectivity errors and 429 responses it meets; fetch k+1 is issued no
\* sooner than k * retryDelay after fetch k failed (1000 ms, then 2000 ms);
\* after the third failed attempt the error is thrown.
C7_AtMostThreeAttempts ==
    /\ Len(rqFetchAt) <= retryAttempts
    /\ Len(rqFetchAt) = rqAttempt
    /\ rqPc = "sleep" => rqWake = rqLog[Len(rqLog)].at + rqAttempt * retryDelay
    /\ \A k \in DOMAIN rqFetchAt :
          k > 1 => rqFetchAt[k] - rqLog[k - 1].at >= (k - 1) * retryDelay
    /\ (Len(rqLog) = retryAttempts /\ rqLog[retryAttempts].outcome # "ok") => rqPc = "thrown"
    /\ rqPc \in {"returned", "thrown"} => Len(rqLog) = Len(rqFetchAt)

\* a connectivity error, then a 429, then a connectivity error: thrown after
\* the third fetch, which was issued 2000 ms after the second one failed
C7_Witness ==
    /\ rqPc = "thrown"
    /\ Len(rqLog) = 3
    /\ rqLog[1].outcome = "neterr"
    /\ rqLog[2].outcome = "http429"
    /\ rqLog[3].outcome = "neterr"
    /\ rqFetchAt[2] - rqLog[1].at = retryDelay
    /\ rqFetchAt[3] - rqLog[2].at = 2 * retryDelay

\* C8 (as claimed): only connectivity errors and HTTP 429 make makeRequest
\* fetch again; any other non-2xx status and a malformed body do not.
C8_RetryOnlyNetworkOr429 ==
    \A k \in DOMAIN rqLog :
        k < Len(rqFetchAt) => rqLog[k].outcome \in {"neterr", "http429", "bodyFail"}

(***************************************************************************)
(* Properties of the free provider chain (SpecFree, FairSpecFree)          *)
(***************************************************************************)
FreeReturned == ltPc = "idle" /\ ltRet # NoResult

\* C4 (as claimed): when the remote provider failed and the dictionary
\* matched no entry, the result is the suffix fallback: every string is the
\* input string followed by the language tag suffix, confidence <= 0.5.
C4_ZeroMatchesGoToSuffix ==
    (/\ FreeReturned
     /\ ltArg.target # ltArg.source
     /\ ltLastError.endpoint = Len(LibreEndpoints)
     /\ NoDictionaryMatch(ltArg.text, ltArg.target))
    => /\ ltRet.translatedText = translateWithDemo(ltArg.text, ltArg.target).translatedText
       /\ ltRet.service # "Enhanced Fallback Translation"
       /\ ltRet.confidence <= 50

\* C9 (as claimed): a translate call whose provider does not answer still
\* returns: the call is never left waiting for ever.
C9_TranslateReturns ==
    (ltPc \in {"fetch", "stalled"}) ~> (ltPc = "idle")

\* the endpoint whose answers a LibreTranslate result was built from (0: the
\* result is not one of LibreTranslate)
AnsweringEndpoint ==
    IF \E e \in DOMAIN LibreEndpoints : ltRet.service = LibreEndpoints[e]
    THEN CHOOSE e \in DOMAIN LibreEndpoints : ltRet.service = LibreEndpoints[e]
    ELSE 0

\* the strings of the input that are sent to an endpoint, by position
SentItems(items) == SelectSeq([i \in DOMAIN items |-> i], LAMBDA i : items[i] # EmptyString)

FetchesOf(e) ==
    LET own == SelectSeq(ltFetched, LAMBDA f : f[1] = e)
    IN [k \in DOMAIN own |-> own[k][2]]

C29_FailedCallWritesNothing ==
    [][/\ (last'.ret.kind = "throw") =>
             /\ cache' = cache
             /\ rateLimiter' = rateLimiter
             /\ \A c \in slots : pc'[c] = "idle"
       /\ (cache' # cache \/ rateLimiter' # rateLimiter) =>
             \/ /\ cache' = [k \in CacheKeys |-> NoResult]
                /\ rateLimiter' = [l \in Langs |-> 0]
             \/ /\ last'.ret.kind = "result"
                /\ last'.tried # << >>
                /\ \A k \in CacheKeys :
                      k # cacheKey(last'.arg.text, last'.arg.target, last'.arg.source)
                         => cache'[k] = cache[k]
                /\ \A l \in Langs : l # last'.arg.target => rateLimiter'[l] = rateLimiter[l]]_vars

\* a call failed at every configured provider while the cache held the
\* result of an earlier call
C29_Witness ==
    /\ last.ret = TranslationFailed
    /\ Len(last.tried) >= 2
    /\ \E k \in CacheKeys : cache[k] # NoResult
    /\ rateLimiter[last.arg.target] # 0

\* C16: every result of a successful remote provider has a confidence c with
\* 0.8 <= c < 1.0, and a confidence of exactly 1.0 is returned only by the
\* same-language no-op.
C16_RemoteConfidenceRange ==
    (last.ret.kind = "result") =>
       /\ (last.ret.service \in AllProviders)
             => (last.ret.confidence >= 80 /\ last.ret.confidence < 100)
       /\ (last.ret.confidence = 100) => (last.ret.service = "none")

\* C19: once a cache key has been written it is not written again with a
\* different value until clearCache empties the cache, also when two
\* translate calls for the same key are in flight at the same time.
C19_CacheWrittenOnce ==
    [][\A k \in CacheKeys :
          (cache[k] # NoResult) =>
             \/ cache'[k] = cache[k]
             \/ cache' = [j \in CacheKeys |-> NoResult]]_vars

\* the confidence of the translation of element i of the call on its own
ElementConfidence(i) ==
    BatchResult(btCall.provider,
                [kind |-> "string", items |-> <<btCall.text.items[i]>>],
                "es", <<btCall.response[i]>>).confidence

RECURSIVE SumOfConfidences(_)
SumOfConfidences(n) ==
    IF n = 0 THEN 0 ELSE ElementConfidence(n) + SumOfConfidences(n - 1)

\* C20: for a list of n strings the returned confidence is the arithmetic
\* mean of the confidences of the n element translations, and the service
\* tag is the one of the translation of the first element.
C20_BatchConfidenceIsMean ==
    (btRet.kind = "result") =>
       LET n == Len(btCall.response)
       IN /\ btRet.confidence * n = SumOfConfidences(n)
          /\ btRet.service =
                BatchResult(btCall.provider,
                            [kind |-> "string", items |-> <<btCall.text.items[1]>>],
                            "es", <<btCall.response[1]>>).service

DictionaryAnswered ==
    /\ FreeReturned
    /\ ltRet.service = "Enhanced Fallback Translation"

\* the entry matches the string at position p and no longer entry matches
\* on a span that overlaps this one
LongestAt(str, entries, e, p) ==
    /\ p \in DOMAIN str
    /\ MatchAt(str, entries[e].english, p)
    /\ \A f \in DOMAIN entries : \A q \in DOMAIN str :
          (/\ PhraseLen(entries[f].english) > PhraseLen(entries[e].english)
           /\ MatchAt(str, entries[f].english, q))
          => \/ q + Len(entries[f].english) <= p
             \/ p + Len(entries[e].english) <= q

\* C17: the dictionary fallback applies the longest phrase first: where a
\* longer and a shorter entry could both apply to a span, the text of the
\* longer one stands in the result, and an input that equals a dictionary
\* phrase yields exactly the mapped text of that phrase.
C17_LongestPhraseFirst ==
    DictionaryAnswered =>
       LET entries == fallbackTranslations(ltArg.target)
       IN \A i \in DOMAIN ltArg.text.items : \A e \in DOMAIN entries :
             LET str == ltArg.text.items[i]
                 out == ltRet.translatedText.items[i]
             IN /\ (LowerText(str) = LowerText(entries[e].english))
                      => out = entries[e].foreign
                /\ (\E p \in DOMAIN str : LongestAt(str, entries, e, p))
                      => Includes(out, entries[e].foreign)

C17_Witness ==
    /\ DictionaryAnswered
    /\ ltArg.target = "es"
    /\ ltArg.text.items = <<TakeForPain>>
    /\ ltRet.translatedText.items = << <<"Toma", "medicamento", "para", "el", "dolor">> >>

(***************************************************************************)
(* Properties of the aggregation pass (SpecAgg)                            *)
(***************************************************************************)
Occurrences(seq, x) == Cardinality({i \in DOMAIN seq : seq[i] = x})

\* the part of the claim both passes are checked for: categories sent once,
\* empty ones never, a failed category keeps its list, the pass goes on
PassProcessesAll ==
    agPc = "done" =>
       /\ \A s \in Sections :
             Occurrences(agSent, s) = IF agParsed[s] # << >> THEN 1 ELSE 0
       /\ \A s \in agThrown : agData[s] = agParsed[s]

\* C10 (as claimed): in one aggregation pass each non-empty category is sent
\* to the resolver exactly once and empty ones never; a category for which
\* the resolver raised keeps its original list and has exactly one error
\* note in the error list; the other categories are still processed.
C10_AggregationPass ==
    /\ PassProcessesAll
    /\ agPc = "done" => \A s \in agThrown : Occurrences(agErrors, s) = 1

\* the same for translateMedicalData alone, with no note for a category
\* that was translated
C10_TranslateMedicalData ==
    (agPc = "done" /\ agPass = "translateMedicalData") =>
       /\ PassProcessesAll
       /\ \A s \in Sections : Occurrences(agErrors, s) = IF s \in agThrown THEN 1 ELSE 0

C10_TranslateMedicalData_Witness ==
    /\ agPc = "done"
    /\ agPass = "translateMedicalData"
    /\ agThrown = {"medications"}
    /\ agSent = <<"diagnoses", "medications", "followUp">>
    /\ agErrors = <<"medications">>

\* the categories of the pass whose translation succeeded
Translated == {s \in Sections : agConfs[s] # 0}

RECURSIVE SumOfTranslated(_)
SumOfTranslated(i) ==
    IF i = 0 THEN 0
    ELSE agConfs[sectionsToTranslate[i]] + SumOfTranslated(i - 1)

\* C21: the overall confidence of a translateMedicalData pass is the sum of
\* the confidences of the categories whose translation succeeded divided by
\* their number; empty categories and categories whose translation raised
\* enter neither the sum nor the count; it is 0 when nothing was translated.
C21_OverallConfidenceIsMean ==
    (agPc = "done" /\ agPass = "translateMedicalData") =>
       /\ Translated = {s \in Sections : agParsed[s] # << >>} \ agThrown
       /\ IF Translated = {}
          THEN agConfidence.num = 0
          ELSE agConfidence.num * Cardinality(Translated)
                  = SumOfTranslated(Len(sectionsToTranslate)) * agConfidence.den

C21_Witness ==
    /\ agPc = "done"
    /\ agPass = "translateMedicalData"
    /\ agThrown = {"medications"}
    /\ agParsed["procedures"] = << >>
    /\ agConfs["diagnoses"] = 90
    /\ agConfs["followUp"] = 70
    /\ agConfidence = [num |-> 160, den |-> 2]

\* C25: in a pass over a record with two or more non-empty categories and a
\* provider that succeeds on every call, every non-empty category ends up
\* translated and the error list is empty.
C25_PassNotRateLimited ==
    (/\ rpRun.pc = "done"
     /\ Cardinality({c \in Sections : rpParsed[c] # << >>}) >= 2) =>
       /\ rpRun.errors = << >>
       /\ \A c \in Sections :
             rpParsed[c] # << >> => rpRun.data[c] = TranslatedList(rpParsed[c])

(***************************************************************************)
(* Properties of the application (SpecApp)                                 *)
(***************************************************************************)
AllResolved == appRuns = {}

\* C11 (as claimed): once all in-flight runs have resolved, the rendered
\* record is the one produced for the latest request, at the language
\* selected last: no older run has rendered over it.
C11_LatestRequestRendered ==
    (AllResolved /\ appLatest > 0) =>
       /\ appRendered.req = appLatest
       /\ \A i \in DOMAIN appRendered.langs : appRendered.langs[i] = appLanguage

\* C12 (as claimed): a submission made while an earlier one is processed
\* replaces it: once all runs have resolved, the stored current data and the
\* rendered output are those of the latest submission.
C12_NewSubmissionWins ==
    (AllResolved /\ appSubmitted # NoData) =>
       /\ currentData = appSubmitted
       /\ appRendered.raw = appSubmitted

(***************************************************************************)
(* Properties of the structuring engine (SpecParse)                        *)
(***************************************************************************)
\* C26: every record produced by one processing run is translated into a
\* single target language, the one selected when the run started, even if
\* the selection changes while the run awaits an earlier category.
C26_OneLanguagePerRun ==
    \A i \in DOMAIN appRendered.langs : appRendered.langs[i] = appRendered.langs[1]

\* C27: isProcessing is true in every state in which at least one
\* processDischargeData run is in flight and false when none is.
C27_FlagTracksRuns ==
    isProcessing <=> (appRuns # {})

\* the half of it that holds: with no run in flight the flag is false
C27_IdleMeansFlagFalse ==
    (appRuns = {}) => ~isProcessing

PrimaryCategories ==
    {"diagnoses", "medications", "instructions", "returnReasons", "followUp",
     "procedures"}

ParseReturned == psPc = "idle" /\ psOut # NoOutcome

\* C13 (as claimed): parseDischargeData never raises to its caller; for
\* every input it returns a record with the six primary categories as lists.
C13_ParseNeverRaises ==
    ParseReturned =>
       /\ psOut.kind = "record"
       /\ PrimaryCategories \subseteq DOMAIN psOut.sections

\* the same for string inputs (JSON of any kind, `{bad json`, XML, text)
C13_StringsAlwaysParsed ==
    (ParseReturned /\ psRaw.form # "object") =>
       /\ psOut.kind = "record"
       /\ PrimaryCategories \subseteq DOMAIN psOut.sections

C13_StringsAlwaysParsed_Witness ==
    /\ ParseReturned
    /\ psRaw.form = "badJson"
    /\ psOut.kind = "record"
    /\ psOut.sections["instructions"] = << <<"{bad">>, <<"json">> >>

(***************************************************************************)
(* Properties of the sentence-preserving parser (SpecSentences)            *)
(***************************************************************************)
\* C14 (as claimed): no two distinct items of a category of a returned
\* record are duplicates: neither is a case-insensitive substring of the
\* other and their word-overlap similarity is below 0.8.
C14_NoDuplicateItems ==
    \A i, j \in DOMAIN sxResult :
       (i # j) =>
          LET a == LowerText(sxResult[i])
              b == LowerText(sxResult[j])
          IN /\ ~Includes(a, b)
             /\ ~SimilarEnough_Inclusive(calculateSimilarity(a, b))

\* what the pattern path does keep: no item is a case-insensitive substring
\* of another, and no similarity is above 0.8
C14_PatternPathNoSubstrings ==
    (sxInput.path = "patterns" /\ AddMatches(sxInput.found, << >>) # << >>) =>
       \A i, j \in DOMAIN sxResult :
          (i # j) =>
             LET a == LowerText(sxResult[i])
                 b == LowerText(sxResult[j])
             IN /\ ~Includes(a, b)
                /\ ~SimilarEnough(calculateSimilarity(a, b))

\* sentence.charAt(0).toUpperCase() + the rest of the sentence as it is
CapitalizeFirst(sentence) ==
    [i \in DOMAIN sentence |-> IF i = 1 THEN Capitalize(<<sentence[1]>>)[1] ELSE sentence[i]]

\* the sentences the fallback is said to deliver
ExpectedSentences(sentences) ==
    LET kept == SelectSeq(sentences,
                   LAMBDA x : PhraseLen(x) > 10 /\ HasSubstantialWord(x))
        caps == [i \in DOMAIN kept |-> CapitalizeFirst(kept[i])]
    IN SubSeq(caps, 1, Min(Len(caps), 10))

\* C22: when pattern extraction left all six categories empty, instructions
\* receives the sentences of the text (longer than 10 characters, with a
\* word of 3+ letters, first letter capitalized) in input order, at most 10,
\* and every other category stays empty; when a category received an item,
\* the fallback adds nothing.
C22_SentenceFallback ==
    (fbInput.category # "none") =>
       LET extracted == AddMatches(fbInput.found, << >>)
       IN /\ \A c \in Sections \ {"instructions"} :
                fbResult[c] = IF c = fbInput.category THEN extracted ELSE << >>
          /\ fbResult["instructions"] =
                IF extracted = << >> THEN ExpectedSentences(fbInput.sentences)
                ELSE IF fbInput.category = "instructions" THEN extracted
                ELSE << >>

\* C23: when a scanned payload is the envelope produced by generateQRCode,
\* its original field is fed to the structuring engine and processing
\* completes with a rendered record and no error.
C23_QREnvelopeRoundTrip ==
    (qrScan.payload = "envelope") =>
       /\ qrScan.fed = JsonParse(qrCode).value.data.original
       /\ qrScan.outcome = "rendered"

\* C24: the completeness score of every returned record is the number of the
\* five categories diagnoses, medications, instructions, returnReasons and
\* followUp that hold at least one item, divided by 5; procedures and the
\* other lists do not change it.
C24_CompletenessScore ==
    (psOut.kind = "record") =>
       psOut.metadata.completeness.num * 5 =
          psOut.metadata.completeness.den *
             Cardinality({c \in {"diagnoses", "medications", "instructions",
                                 "returnReasons", "followUp"} :
                             Len(psOut.sections[c]) >= 1})

C24_Witness ==
    /\ psOut.kind = "record"
    /\ psOut.sections["procedures"] # << >>
    /\ psOut.sections["allergies"] # << >>
    /\ psOut.metadata.completeness.num = 0

\* C15: structuring carries no state between calls: a later call on the raw
\* data of the first call of the instance, with or without other calls in
\* between, returns a record equal to the first one in every field except
\* metadata.parseDate.
C15_ParseIsDeterministic ==
    (ParseReturned /\ psFirst.again /\ psRaw = psFirst.raw) =>
       WithoutParseDate(psOut) = psFirst.out

C15_Witness ==
    /\ ParseReturned
    /\ psFirst.again
    /\ psFirst.others
    /\ psRaw = psFirst.raw
    /\ psRaw.lines = <<RestLine, MedicationsHeader>>
    /\ psOut.kind = "record"
    /\ psOut.sections["medications"] = << <<"Take", "aspirin", "daily">> >>
    /\ psOut.metadata.parseDate = 2

\* the section named by the most recent header line at or before line i,
\* instructions if there is none
RECURSIVE HeaderBefore(_, _)
HeaderBefore(lines, i) ==
    IF i = 0 THEN "instructions"
    ELSE IF lines[i].section # "none" THEN lines[i].section
    ELSE HeaderBefore(lines, i - 1)

UnstructuredDone ==
    ParseReturned /\ psOut.kind = "record" /\ ParsePath(psRaw) = "unstructured"

WordIn(w, items) == \E k \in DOMAIN items : \E n \in DOMAIN items[k] : items[k][n] = w

\* every line that is not a header is put into the buffer, and every line
\* in the buffer is flushed into the section that the most recent header
\* names, which is the section that was current when the line was read
LinesFlushedToTheirSection ==
    /\ \A i \in DOMAIN psRaw.lines :
          (psRaw.lines[i].section = "none") => \E k \in DOMAIN psAttr : psAttr[k].line = i
    /\ \A k \in DOMAIN psAttr :
          /\ psAttr[k].section = HeaderBefore(psRaw.lines, psAttr[k].line)
          /\ psAttr[k].flushed = psAttr[k].section
    /\ \A c \in ResultSections : \A w \in {"Rest", "NPO", "Take", "aspirin", "daily",
                                          "Instructions:", "null", "{bad", "json"} :
          WordIn(w, psResult[c]) =>
             \E k \in DOMAIN psAttr :
                psAttr[k].section = c /\ \E n \in DOMAIN psAttr[k].words : psAttr[k].words[n] = w

HeaderLines == {i \in DOMAIN psRaw.lines : psRaw.lines[i].section # "none"}

HeaderText(line) == line.words[1]

\* C30: in unstructured mode every line that matches a section-header
\* pattern is handled as a header, also when it names the section that is
\* already current: its header text is in no item of any category, the
\* content after its colon is kept as content of its section, and a header
\* without content contributes nothing.
C30_HeaderLinesAreHeaders ==
    UnstructuredDone =>
       \A i \in HeaderLines :
          LET line == psRaw.lines[i]
          IN /\ \A c \in ResultSections : ~WordIn(HeaderText(line), psResult[c])
             /\ \A k \in DOMAIN psAttr :
                   psAttr[k].line = i =>
                      /\ psAttr[k].section = line.section
                      /\ psAttr[k].words = line.after
             /\ (line.after # << >>) => \E k \in DOMAIN psAttr : psAttr[k].line = i
             /\ (line.after = << >>) => \A k \in DOMAIN psAttr : psAttr[k].line # i

\* the same for the header lines that name another section than the current
\* one, which are the lines parseUnstructuredText handles as headers
C30_SwitchingHeadersAreHeaders ==
    UnstructuredDone =>
       \A i \in HeaderLines :
          LET line == psRaw.lines[i]
          IN (line.section # HeaderBefore(psRaw.lines, i - 1)) =>
                /\ \A k \in DOMAIN psAttr :
                      psAttr[k].line = i =>
                         /\ psAttr[k].section = line.section
                         /\ psAttr[k].words = line.after
                /\ (line.after # << >>) => \E k \in DOMAIN psAttr : psAttr[k].line = i
                /\ (line.after = << >>) => \A k \in DOMAIN psAttr : psAttr[k].line # i

====
